---- MODULE Spec2Model ----
(***************************************************************************)
(* A model of the NDTP IDS detection pipeline (behtml/ndtp_ids):          *)
(*   - MetricsAggregator and run_aggregator   (src/ndtp_ids/aggregator.py)*)
(*   - SuricataRuleParser                 (src/ndtp_ids/suricata_rules.py)*)
(*   - SuricataEngine and run_suricata_ids(src/ndtp_ids/suricata_engine.py)*)
(* Text values the code inspects character by character (port and address *)
(* selectors, option values) are sequences of one-character strings.       *)
(* Timestamps are Python floats; they are counted here in ticks of         *)
(* 1/Resolution second, so that int(timestamp) is a real truncation.       *)
(***************************************************************************)
EXTENDS Integers, Sequences, FiniteSets, TLC

(***************************************************************************)
(* Bounds of the model                                                     *)
(***************************************************************************)
MaxEvents == 3
MaxSaveEvents == 2
MaxAlerts == 1
MaxCycles == 1
MaxCalls == 4
MaxLearnSamples == 101
MaxMlCalls == 3
MaxMlWindows == 3
MaxScoreCycles == 1
MaxWorkerCycles == 12
Resolution == 2

(***************************************************************************)
(* Program constants                                                       *)
(***************************************************************************)
window_minutes == 1
window_seconds == window_minutes * 60

\* Python's None for an absent port (ICMP and other port-less frames)
None == -1

VARIABLES
    \* ---- aggregator.py ----
    current_window,      \* MetricsAggregator.current_window, an insertion-ordered dict
    raw_events,          \* table raw_events, in id order
    aggregated_metrics,  \* table aggregated_metrics, in id order (committed rows)
    agg_pc,              \* where run_aggregator stands
    saved_events,        \* history: per _save_window call, the raw_events ids it covers
    \* ---- _save_window statement by statement, and a concurrent reader ----
    txn,                 \* rows inserted on the open connection, not yet committed
    pending,             \* windows_to_flush not yet saved
    metrics_read,        \* what the last read of the cycle worker returned
    \* ---- a SuricataRuleParser used on its own ----
    m_input,             \* the rule line and the packet event given to it
    m_rules,             \* SuricataRuleParser.rules
    m_matches,           \* the result of match_packet
    m_pc,
    \* ---- suricata_engine.py ----
    suricata_rules,      \* table suricata_rules (sid is its primary key)
    suricata_alerts,     \* table suricata_alerts, in id order
    parser_rules,        \* per engine object: SuricataEngine.parser.rules
    engine_up,           \* per engine object: has it been constructed
    last_add,            \* history: per sid, the line of the most recent add
    \* ---- one add_rule call on a freshly started engine ----
    a_line,              \* the rule line given to add_rule
    a_pc,
    \* ---- anomaly_detector.py ----
    device_profiles,     \* table device_profiles, keyed by (src_ip, metric_name)
    alerts,              \* table alerts, in id order
    detect_pc,           \* where run_detector stands
    cycle,               \* history: what the last run_detection call looked at
    \* ---- adaptive_trainer.py ----
    trainer,             \* the constructor parameters of the AdaptiveTrainer
    metrics_history,     \* table metrics_history, in id order
    host_profiles,       \* table host_profiles, keyed by src_ip
    t_call,              \* history: the last add_metrics_sample call and its result
    \* ---- ml_detector.py ----
    ml_training_data,    \* table ml_training_data, in id order
    ml_model_metrics,    \* table ml_model_metrics, in id order
    ml,                  \* the MLAnomalyDetector object: model, scaler, is_trained
    model_file,          \* the persisted model at model_path
    ml_call,             \* history: the last train call and its result
    ml_alerts,           \* table ml_alerts, in id order
    \* ---- hybrid_scorer.py ----
    scorer,              \* the HybridScorer object: which components it holds
    hybrid_verdicts,     \* table hybrid_verdicts, in id order
    h_call,              \* history: the score_host calls and what became of them
    h_worker,            \* run_hybrid_scorer: its cycle counter and where it stands
    \* ---- a rule change and a check_packet on one engine, statement by statement ----
    reload,              \* the thread in add_rule / delete_rule / toggle_rule
    check,               \* the thread in check_packet
    \* ---- a function of the program applied to given arguments ----
    fn_call              \* the arguments and, once applied, the value returned

aggVars == <<current_window, raw_events, aggregated_metrics, agg_pc, saved_events>>
saveVars == <<txn, pending, metrics_read>>
matchVars == <<m_input, m_rules, m_matches, m_pc>>
engineVars == <<suricata_rules, suricata_alerts, parser_rules, engine_up, last_add>>
addVars == <<a_line, a_pc>>
detectVars == <<device_profiles, alerts, detect_pc, cycle>>
trainerVars == <<trainer, metrics_history, host_profiles, t_call>>
mlVars == <<ml_training_data, ml_model_metrics, ml, model_file, ml_call>>
hybridVars == <<ml_alerts, scorer, hybrid_verdicts, h_call, h_worker>>
raceVars == <<reload, check>>
pureVars == <<fn_call>>
moreVars == <<hybridVars, raceVars, pureVars>>
laterVars == <<detectVars, trainerVars, mlVars, moreVars>>
restVars == <<matchVars, engineVars, addVars, laterVars>>
vars == <<current_window, raw_events, aggregated_metrics, agg_pc, saved_events,
          txn, pending, metrics_read, m_input, m_rules, m_matches, m_pc,
          suricata_rules, suricata_alerts, parser_rules, engine_up, last_add,
          a_line, a_pc, device_profiles, alerts, detect_pc, cycle,
          trainer, metrics_history, host_profiles, t_call,
          ml_training_data, ml_model_metrics, ml, model_file, ml_call,
          ml_alerts, scorer, hybrid_verdicts, h_call, h_worker, reload, check, fn_call>>

(***************************************************************************)
(* Generic helpers                                                         *)
(***************************************************************************)
Range(s) == {s[i] : i \in DOMAIN s}

\* Python's int(x) for a float x: truncation toward zero (x is in ticks)
PyInt(ticks) == IF ticks >= 0 THEN ticks \div Resolution
                ELSE -((-ticks) \div Resolution)

\* Python's a // b for b > 0: floor division
FloorDiv(a, b) == a \div b

(***************************************************************************)
(* Text handling as Python does it.  A text is a sequence of one-character *)
(* strings; the alphabet used here has digits, letters and . / : - , [ ]   *)
(* (no white space, no sign other than "-", no underscore).                *)
(***************************************************************************)
Digits == {"0", "1", "2", "3", "4", "5", "6", "7", "8", "9"}

DigitVal(c) ==
    CASE c = "0" -> 0 [] c = "1" -> 1 [] c = "2" -> 2 [] c = "3" -> 3 [] c = "4" -> 4
      [] c = "5" -> 5 [] c = "6" -> 6 [] c = "7" -> 7 [] c = "8" -> 8 [] c = "9" -> 9

\* str.isdigit()
isdigit(s) == s # <<>> /\ \A i \in DOMAIN s : s[i] \in Digits

\* the value of a string of digits
RECURSIVE DigitsValue(_)
DigitsValue(s) ==
    IF s = <<>> THEN 0
    ELSE DigitsValue(SubSeq(s, 1, Len(s) - 1)) * 10 + DigitVal(s[Len(s)])

\* int(s) succeeds: digits with an optional sign
IsIntText(s) ==
    \/ isdigit(s)
    \/ Len(s) > 1 /\ s[1] = "-" /\ isdigit(Tail(s))

\* int(s)
IntOf(s) == IF s[1] = "-" THEN 0 - DigitsValue(Tail(s)) ELSE DigitsValue(s)

\* c in s
Contains(s, c) == \E i \in DOMAIN s : s[i] = c

\* s.startswith(prefix)
StartsWith(s, prefix) ==
    Len(prefix) <= Len(s) /\ SubSeq(s, 1, Len(prefix)) = prefix

\* the index of the first (last) occurrence of c in s, which contains c
FirstIndex(s, c) == CHOOSE i \in DOMAIN s : s[i] = c /\ \A j \in 1..(i - 1) : s[j] # c
LastIndex(s, c) == CHOOSE i \in DOMAIN s : s[i] = c /\ \A j \in (i + 1)..Len(s) : s[j] # c

\* s.split(c)
RECURSIVE Split(_, _)
Split(s, c) ==
    IF ~Contains(s, c) THEN <<s>>
    ELSE LET i == FirstIndex(s, c)
         IN  <<SubSeq(s, 1, i - 1)>> \o Split(SubSeq(s, i + 1, Len(s)), c)

\* s.split(c, 1)
SplitOnce(s, c) ==
    IF ~Contains(s, c) THEN <<s>>
    ELSE LET i == FirstIndex(s, c)
         IN  <<SubSeq(s, 1, i - 1), SubSeq(s, i + 1, Len(s))>>

\* s.rsplit(c, 1)[0]
RSplitHead(s, c) ==
    IF ~Contains(s, c) THEN s ELSE SubSeq(s, 1, LastIndex(s, c) - 1)

\* str(n) for a natural number n
RECURSIVE NatText(_)
NatText(n) ==
    LET d == <<"0", "1", "2", "3", "4", "5", "6", "7", "8", "9">>
    IN  IF n < 10 THEN <<d[n + 1]>> ELSE NatText(n \div 10) \o <<d[(n % 10) + 1]>>

any == <<"a", "n", "y">>

\* str.lower() on the protocol names that occur
lower(s) ==
    CASE s = "TCP" -> "tcp" [] s = "UDP" -> "udp" [] s = "ICMP" -> "icmp"
      [] s = "IP" -> "ip" [] OTHER -> s

(***************************************************************************)
(* SuricataRuleParser._match_ip                                            *)
(***************************************************************************)
\* ipaddress accepts s as an IPv4 address: four decimal octets of at most
\* three digits, none above 255, none with a leading zero
IsOctet(s) ==
    /\ isdigit(s)
    /\ Len(s) <= 3
    /\ (Len(s) > 1 => s[1] # "0")
    /\ DigitsValue(s) <= 255

IsIPv4(s) ==
    LET parts == Split(s, ".")
    IN  Len(parts) = 4 /\ \A i \in 1..4 : IsOctet(parts[i])

Octets(s) == LET parts == Split(s, ".") IN [i \in 1..4 |-> DigitsValue(parts[i])]

\* ipaddress.ip_network(rule_ip, strict=False) accepts rule_ip
IsNetwork(rule_ip) ==
    LET parts == Split(rule_ip, "/")
    IN  /\ Len(parts) = 2
        /\ IsIPv4(parts[1])
        /\ isdigit(parts[2])
        /\ DigitsValue(parts[2]) <= 32

Pow2(k) == CASE k = 0 -> 1 [] k = 1 -> 2 [] k = 2 -> 4 [] k = 3 -> 8 [] k = 4 -> 16
             [] k = 5 -> 32 [] k = 6 -> 64 [] k = 7 -> 128 [] k = 8 -> 256

\* the number of leading bits of octet k that a prefix of n bits covers
BitsOf(n, k) ==
    LET left == n - 8 * (k - 1)
    IN  IF left <= 0 THEN 0 ELSE IF left >= 8 THEN 8 ELSE left

\* ipaddress.ip_address(packet_ip) in ipaddress.ip_network(rule_ip, strict=False)
InNetwork(packet_ip, rule_ip) ==
    LET parts == Split(rule_ip, "/")
        net == Octets(parts[1])
        n == DigitsValue(parts[2])
        adr == Octets(packet_ip)
    IN  \A k \in 1..4 :
            adr[k] \div Pow2(8 - BitsOf(n, k)) = net[k] \div Pow2(8 - BitsOf(n, k))

_match_ip(rule_ip, packet_ip) ==
    \/ rule_ip = any
    \/ rule_ip = packet_ip
    \/ /\ Contains(rule_ip, "/")
       /\ IF IsNetwork(rule_ip) /\ IsIPv4(packet_ip)
          THEN InNetwork(packet_ip, rule_ip)
          ELSE \* except (ValueError, TypeError): comparison of text prefixes
               StartsWith(packet_ip, RSplitHead(Split(rule_ip, "/")[1], "."))

(***************************************************************************)
(* SuricataRuleParser._match_port                                          *)
(***************************************************************************)
\* start, end = map(int, parts); start <= packet_port <= end
\* (a ValueError, from int() or from the unpacking, is swallowed)
InBounds(parts, packet_port) ==
    /\ Len(parts) = 2
    /\ IsIntText(parts[1])
    /\ IsIntText(parts[2])
    /\ IntOf(parts[1]) <= packet_port
    /\ packet_port <= IntOf(parts[2])

\* packet_port in [int(p) for p in parts]
InList(parts, packet_port) ==
    /\ \A i \in DOMAIN parts : IsIntText(parts[i])
    /\ \E i \in DOMAIN parts : IntOf(parts[i]) = packet_port

\* _match_port without the test for an absent packet port
_match_port_noneAsZero(rule_port, packet_port) ==
    LET port == IF packet_port = None THEN 0 ELSE packet_port
    IN  \/ rule_port = any
        \/ isdigit(rule_port) /\ DigitsValue(rule_port) = port
        \/ /\ Contains(rule_port, ":")
           /\ rule_port[1] # "["
           /\ InBounds(Split(rule_port, ":"), port)
        \/ /\ rule_port[1] = "[" /\ rule_port[Len(rule_port)] = "]"
           /\ LET inner == SubSeq(rule_port, 2, Len(rule_port) - 1)
              IN  \/ Contains(inner, "-") /\ InBounds(SplitOnce(inner, "-"), port)
                  \/ Contains(inner, ":") /\ InBounds(SplitOnce(inner, ":"), port)
                  \/ Contains(inner, ",") /\ InList(Split(inner, ","), port)

_match_port(rule_port, packet_port) ==
    IF rule_port = any THEN TRUE
    ELSE IF packet_port = None THEN FALSE
    ELSE \/ isdigit(rule_port) /\ DigitsValue(rule_port) = packet_port
         \/ /\ Contains(rule_port, ":")
            /\ rule_port[1] # "["
            /\ InBounds(Split(rule_port, ":"), packet_port)
         \/ /\ rule_port[1] = "[" /\ rule_port[Len(rule_port)] = "]"
            /\ LET inner == SubSeq(rule_port, 2, Len(rule_port) - 1)
               IN  \/ Contains(inner, "-") /\ InBounds(SplitOnce(inner, "-"), packet_port)
                   \/ Contains(inner, ":") /\ InBounds(SplitOnce(inner, ":"), packet_port)
                   \/ Contains(inner, ",") /\ InList(Split(inner, ","), packet_port)

(***************************************************************************)
(* Rule lines.  A line is kept as its white-space separated header fields  *)
(* and the list of its options; pad tells whether white space surrounds it.*)
(* form is "rule" for a line of the shape the regular expression of        *)
(* parse_rule accepts, else "blank", "comment" or "garbage".  Message      *)
(* texts, which the code never looks into, are kept in one piece.          *)
(***************************************************************************)
Line(action, protocol, src_ip, src_port, direction, dst_ip, dst_port, options) ==
    [form |-> "rule", pad |-> FALSE, action |-> action, protocol |-> protocol,
     src_ip |-> src_ip, src_port |-> src_port, direction |-> direction,
     dst_ip |-> dst_ip, dst_port |-> dst_port, options |-> options]

OtherLine(form) ==
    [form |-> form, pad |-> FALSE, action |-> "", protocol |-> "",
     src_ip |-> <<>>, src_port |-> <<>>, direction |-> "",
     dst_ip |-> <<>>, dst_port |-> <<>>, options |-> <<>>]

\* key:"value";  and  key:value;
Q(key, value) == [key |-> key, value |-> value, quoted |-> TRUE]
U(key, value) == [key |-> key, value |-> value, quoted |-> FALSE]

\* str.strip()
strip(text) == [text EXCEPT !.pad = FALSE]

\* Python's None as the result of parse_rule
NoRule == [none |-> TRUE]

PutOption(options, key, value) ==
    [k \in DOMAIN options \cup {key} |-> IF k = key THEN value ELSE options[k]]

\* the loop over quoted_pattern: a later key:"value" overwrites an earlier one
RECURSIVE QuotedOptions(_, _)
QuotedOptions(opts, acc) ==
    IF opts = <<>> THEN acc
    ELSE QuotedOptions(Tail(opts),
             IF Head(opts).quoted THEN PutOption(acc, Head(opts).key, Head(opts).value)
             ELSE acc)

\* the loop over options_str.split(';'): an unquoted option is kept when its
\* value is not empty and its key is not there yet
RECURSIVE UnquotedOptions(_, _)
UnquotedOptions(opts, acc) ==
    IF opts = <<>> THEN acc
    ELSE UnquotedOptions(Tail(opts),
             IF /\ ~Head(opts).quoted
                /\ Head(opts).value # <<>>
                /\ Head(opts).key \notin DOMAIN acc
             THEN PutOption(acc, Head(opts).key, Head(opts).value)
             ELSE acc)

\* msg is set by the quoted options only; the last one wins
RECURSIVE MsgOf(_, _)
MsgOf(opts, acc) ==
    IF opts = <<>> THEN acc
    ELSE MsgOf(Tail(opts),
               IF Head(opts).quoted /\ Head(opts).key = "msg" THEN Head(opts).value
               ELSE acc)

\* the digits (\d+) at the start of a value
RECURSIVE LeadingDigits(_)
LeadingDigits(value) ==
    IF value = <<>> \/ Head(value) \notin Digits THEN <<>>
    ELSE <<Head(value)>> \o LeadingDigits(Tail(value))

\* re.search(r'sid:\s*(\d+)', options_str): the first sid option whose value
\* starts with a digit; sid stays 0 when there is none
RECURSIVE SidOf(_)
SidOf(opts) ==
    IF opts = <<>> THEN 0
    ELSE IF /\ Head(opts).key = "sid"
            /\ ~Head(opts).quoted
            /\ LeadingDigits(Head(opts).value) # <<>>
         THEN DigitsValue(LeadingDigits(Head(opts).value))
         ELSE SidOf(Tail(opts))

parse_rule(rule_text) ==
    LET text == strip(rule_text)
    IN  IF text.form \in {"blank", "comment"} THEN NoRule
        ELSE IF text.form # "rule" THEN NoRule
        ELSE [action    |-> text.action,
              protocol  |-> text.protocol,
              src_ip    |-> text.src_ip,
              src_port  |-> text.src_port,
              direction |-> text.direction,
              dst_ip    |-> text.dst_ip,
              dst_port  |-> text.dst_port,
              options   |-> UnquotedOptions(text.options,
                                QuotedOptions(text.options, [k \in {} |-> <<>>])),
              sid       |-> SidOf(text.options),
              msg       |-> MsgOf(text.options, <<>>),
              raw_rule  |-> text]

\* SuricataRuleParser.load_rules_from_text: the rules of the lines that parse
RECURSIVE load_rules_from_text(_, _)
load_rules_from_text(rules, lines) ==
    IF lines = <<>> THEN rules
    ELSE load_rules_from_text(
             IF parse_rule(Head(lines)) # NoRule
             THEN Append(rules, parse_rule(Head(lines))) ELSE rules,
             Tail(lines))

RuleMatches(rule, packet_event) ==
    /\ lower(rule.protocol) = "ip" \/ lower(rule.protocol) = lower(packet_event.protocol)
    /\ _match_ip(rule.src_ip, packet_event.src_ip)
    /\ _match_ip(rule.dst_ip, packet_event.dst_ip)
    /\ _match_port(rule.src_port, packet_event.src_port)
    /\ _match_port(rule.dst_port, packet_event.dst_port)

\* the rules match_packet reports, in the order of the rule list
match_packet(rules, packet_event) ==
    LET hit(rule) == RuleMatches(rule, packet_event)
    IN  SelectSeq(rules, hit)

(***************************************************************************)
(* A parser on its own: one rule line is loaded, one packet is matched.    *)
(* The port selectors are drawn as values of the selector grammar and      *)
(* written out as the text the rule line carries.                          *)
(***************************************************************************)
SelectorPorts == {0, 22, 80}

PortSelectors ==
    {[kind |-> "any", lo |-> 0, hi |-> 0]}
    \cup {[kind |-> "literal", lo |-> p, hi |-> p] : p \in SelectorPorts}
    \cup {[kind |-> k, lo |-> a, hi |-> b] :
             k \in {"range", "bracket-dash", "bracket-colon", "list"},
             a \in SelectorPorts, b \in SelectorPorts}

SelectorText(sel) ==
    CASE sel.kind = "any"           -> any
      [] sel.kind = "literal"       -> NatText(sel.lo)
      [] sel.kind = "range"         -> NatText(sel.lo) \o <<":">> \o NatText(sel.hi)
      [] sel.kind = "bracket-dash"  -> <<"[">> \o NatText(sel.lo) \o <<"-">> \o NatText(sel.hi) \o <<"]">>
      [] sel.kind = "bracket-colon" -> <<"[">> \o NatText(sel.lo) \o <<":">> \o NatText(sel.hi) \o <<"]">>
      [] sel.kind = "list"          -> <<"[">> \o NatText(sel.lo) \o <<",">> \o NatText(sel.hi) \o <<"]">>

Ip(a, b, c, d) == NatText(a) \o <<".">> \o NatText(b) \o <<".">> \o NatText(c) \o <<".">> \o NatText(d)

MatchInputs ==
    [rule_protocol : {"tcp", "ip", "UDP"},
     rule_src_ip   : {any, Ip(10, 0, 0, 1), Ip(10, 0, 0, 0) \o <<"/", "8">>},
     rule_dst_ip   : {any, Ip(8, 8, 8, 8)},
     src_sel       : {s \in PortSelectors : s.kind = "any" \/ (s.kind = "literal" /\ s.lo = 22)},
     dst_sel       : PortSelectors,
     protocol      : {"TCP", "udp", ""},
     src_ip        : {Ip(10, 0, 0, 1), Ip(10, 9, 0, 1), NatText(10) \o <<".", "0", ".", "0">>},
     dst_ip        : {Ip(8, 8, 4, 4)},
     src_port      : {None, 22},
     dst_port      : {None, 0, 22, 23, 80}]

NoInput ==
    [rule_protocol |-> "", rule_src_ip |-> <<>>, rule_dst_ip |-> <<>>,
     src_sel |-> [kind |-> "any", lo |-> 0, hi |-> 0],
     dst_sel |-> [kind |-> "any", lo |-> 0, hi |-> 0],
     protocol |-> "", src_ip |-> <<>>, dst_ip |-> <<>>,
     src_port |-> None, dst_port |-> None]

InputLine(in) ==
    Line("alert", in.rule_protocol, in.rule_src_ip, SelectorText(in.src_sel), "->",
         in.rule_dst_ip, SelectorText(in.dst_sel),
         <<Q("msg", <<"probe">>), U("sid", <<"1">>)>>)

InputPacket(in) ==
    [timestamp |-> 0, src_ip |-> in.src_ip, dst_ip |-> in.dst_ip,
     src_port |-> in.src_port, dst_port |-> in.dst_port, protocol |-> in.protocol]

LoadRule ==
    /\ m_pc = "start"
    /\ m_rules' = load_rules_from_text(m_rules, <<InputLine(m_input)>>)
    /\ m_pc' = "loaded"
    /\ UNCHANGED <<aggVars, saveVars, engineVars, addVars, laterVars, m_input, m_matches>>

MatchPacket ==
    /\ m_pc = "loaded"
    /\ m_matches' = match_packet(m_rules, InputPacket(m_input))
    /\ m_pc' = "matched"
    /\ UNCHANGED <<aggVars, saveVars, engineVars, addVars, laterVars, m_input, m_rules>>

(***************************************************************************)
(* SuricataEngine.  Two engine objects share the store: "ids" is the one   *)
(* run_suricata_ids builds for the packet pipeline, "web" the one the web  *)
(* interface builds for the administrator (web_interface.init_components). *)
(***************************************************************************)
Engines == {"ids", "web"}
Admins == {"web"}

Sid(n) == U("sid", NatText(n))

\* suricata_rules.DEFAULT_RULES
DEFAULT_RULES == <<
    Line("alert", "tcp", any, any, "->", any, NatText(22),
         <<Q("msg", <<"SSH Connection Attempt">>), Sid(1000001)>>),
    Line("alert", "tcp", any, any, "->", any, NatText(23),
         <<Q("msg", <<"Telnet Connection Attempt">>), Sid(1000002)>>),
    Line("alert", "tcp", any, any, "->", any,
         <<"[">> \o NatText(1) \o <<"-">> \o NatText(1024) \o <<"]">>,
         <<Q("msg", <<"Connection to Privileged Port">>), Sid(1000003)>>),
    Line("alert", "tcp", any, any, "->", any, any,
         <<Q("msg", <<"High Connection Rate">>),
           U("threshold", <<"type both,track by_src,count 50,seconds 10">>),
           Sid(1000004)>>),
    Line("alert", "udp", any, any, "->", any, NatText(53),
         <<Q("msg", <<"DNS Request">>), Sid(1000005)>>),
    Line("alert", "icmp", any, any, "->", any, any,
         <<Q("msg", <<"ICMP Ping">>), Sid(1000006)>>),
    Line("alert", "tcp", any, any, "->", any, NatText(3389),
         <<Q("msg", <<"RDP Connection Attempt">>), Sid(1000007)>>),
    Line("alert", "tcp", any, any, "->", any, NatText(445),
         <<Q("msg", <<"SMB Connection">>), Sid(1000008)>>),
    Line("alert", "tcp", any, any, "->", any, NatText(135),
         <<Q("msg", <<"RPC Connection">>), Sid(1000009)>>),
    Line("alert", "tcp", any, any, "->", any,
         <<"[">> \o NatText(5900) \o <<":">> \o NatText(5999) \o <<"]">>,
         <<Q("msg", <<"VNC Connection Attempt">>), Sid(1000010)>>) >>

\* the rows of the table in the order SELECT returns them: by rowid, that is by sid
RECURSIVE RowsBySid(_)
RowsBySid(rows) ==
    IF rows = {} THEN <<>>
    ELSE LET first == CHOOSE r \in rows : \A q \in rows : r.sid <= q.sid
         IN  <<first>> \o RowsBySid(rows \ {first})

RECURSIVE ParseEnabled(_)
ParseEnabled(rows) ==
    IF rows = <<>> THEN <<>>
    ELSE LET rule == parse_rule(Head(rows).raw_rule)
         IN  (IF Head(rows).enabled /\ rule # NoRule THEN <<rule>> ELSE <<>>)
             \o ParseEnabled(Tail(rows))

\* a reload that takes the disabled rows as well
_load_rules_from_db_disabledToo(rows) ==
    ParseEnabled([i \in DOMAIN RowsBySid(rows) |-> [RowsBySid(rows)[i] EXCEPT !.enabled = TRUE]])

\* the rule list _load_rules_from_db leaves in parser.rules
_load_rules_from_db(rows) == ParseEnabled(RowsBySid(rows))

\* a store in which INSERT would keep the row that holds the same sid
InsertOrReplace_keepOld(rows, row) == rows \cup {row}

\* INSERT OR REPLACE INTO suricata_rules: sid is the primary key
InsertOrReplace(rows, row) == {r \in rows : r.sid # row.sid} \cup {row}

\* a row that keeps the header of the rule text and drops its options
RuleRow_headerOnly(rule, category) ==
    [sid |-> rule.sid, action |-> rule.action, protocol |-> rule.protocol,
     src_ip |-> rule.src_ip, src_port |-> rule.src_port, direction |-> rule.direction,
     dst_ip |-> rule.dst_ip, dst_port |-> rule.dst_port, msg |-> rule.msg,
     options |-> rule.options, raw_rule |-> [rule.raw_rule EXCEPT !.options = <<>>],
     enabled |-> TRUE, category |-> category]

RuleRow(rule, category) ==
    [sid |-> rule.sid, action |-> rule.action, protocol |-> rule.protocol,
     src_ip |-> rule.src_ip, src_port |-> rule.src_port, direction |-> rule.direction,
     dst_ip |-> rule.dst_ip, dst_port |-> rule.dst_port, msg |-> rule.msg,
     options |-> rule.options, raw_rule |-> rule.raw_rule,
     enabled |-> TRUE, category |-> category]

\* add_rule on an engine whose store is st.rows and whose rule list is st.rules
add_rule(st, rule_text, category) ==
    LET rule == parse_rule(strip(rule_text))
    IN  IF rule = NoRule THEN st
        ELSE LET rows == InsertOrReplace(st.rows, RuleRow(rule, category))
             IN  [rows |-> rows, rules |-> _load_rules_from_db(rows)]

\* delete_rule: DELETE ... WHERE sid = ?, and a reload if a row was deleted
delete_rule(st, sid) ==
    LET rows == {r \in st.rows : r.sid # sid}
    IN  IF \E r \in st.rows : r.sid = sid
        THEN [rows |-> rows, rules |-> _load_rules_from_db(rows)]
        ELSE st

\* toggle_rule: UPDATE ... SET enabled = ? WHERE sid = ?, and a reload if a row
\* was matched
toggle_rule(st, sid, enabled) ==
    LET rows == {IF r.sid = sid THEN [r EXCEPT !.enabled = enabled] ELSE r : r \in st.rows}
    IN  IF \E r \in st.rows : r.sid = sid
        THEN [rows |-> rows, rules |-> _load_rules_from_db(rows)]
        ELSE st

\* add_rules_from_text: add_rule for every line that is neither empty nor a comment
RECURSIVE add_rules_from_text(_, _, _)
add_rules_from_text(st, lines, category) ==
    IF lines = <<>> THEN st
    ELSE LET before == add_rules_from_text(st, SubSeq(lines, 1, Len(lines) - 1), category)
             line == strip(lines[Len(lines)])
         IN  IF line.form \in {"blank", "comment"} THEN before
             ELSE add_rule(before, line, category)

\* load_default_rules
load_default_rules(st) ==
    IF Cardinality(st.rows) = 0 THEN add_rules_from_text(st, DEFAULT_RULES, "default")
    ELSE st

\* _get_severity_from_rule
_get_severity_from_rule(rule) ==
    IF rule.dst_port \in {NatText(23), NatText(445), NatText(135), NatText(3389)}
    THEN "critical"
    ELSE IF rule.dst_port \in {NatText(22), NatText(5900), NatText(5901)} THEN "high"
    ELSE IF rule.action \in {"drop", "reject"} THEN "high"
    ELSE "medium"

AlertOf(rule, packet_event) ==
    [timestamp |-> packet_event.timestamp,
     sid       |-> rule.sid,
     src_ip    |-> packet_event.src_ip,
     src_port  |-> packet_event.src_port,
     dst_ip    |-> packet_event.dst_ip,
     dst_port  |-> packet_event.dst_port,
     protocol  |-> packet_event.protocol,
     action    |-> rule.action,
     msg       |-> rule.msg,
     severity  |-> _get_severity_from_rule(rule)]

\* the alerts check_packet saves, one per matching rule
check_packet(rules, packet_event) ==
    LET matches == match_packet(rules, packet_event)
    IN  [i \in DOMAIN matches |-> AlertOf(matches[i], packet_event)]

(***************************************************************************)
(* What the administrator and the pipeline feed to the engines             *)
(***************************************************************************)
Rule9001_3389 ==
    Line("alert", "tcp", any, any, "->", any, NatText(3389),
         <<Q("msg", <<"RDP hot rule">>), Sid(9001)>>)
Rule9001_22 ==
    Line("alert", "tcp", any, any, "->", any, NatText(22),
         <<Q("msg", <<"SSH rule">>), Sid(9001)>>)

RuleLines == {Rule9001_3389, Rule9001_22, OtherLine("comment")}

\* texts of two lines
LineSeqs == {<<a, b>> : a, b \in RuleLines}

AdminSids == {9001, 1000007}

Packets == {
    [timestamp |-> 0, src_ip |-> Ip(10, 0, 0, 1), dst_ip |-> Ip(127, 0, 0, 1),
     src_port |-> 40000, dst_port |-> 3389, protocol |-> "TCP"],
    [timestamp |-> 0, src_ip |-> Ip(10, 0, 0, 1), dst_ip |-> Ip(127, 0, 0, 1),
     src_port |-> 40000, dst_port |-> 22, protocol |-> "TCP"],
    \* a packet whose src_ip is empty or missing: packet_event.get('src_ip', '')
    [timestamp |-> 0, src_ip |-> <<>>, dst_ip |-> Ip(127, 0, 0, 1),
     src_port |-> 40000, dst_port |-> 22, protocol |-> "TCP"] }

StoreOf(e) == [rows |-> suricata_rules, rules |-> parser_rules[e]]

\* the history after a call of add_rule
NoteAdd(hist, rule_text) ==
    IF parse_rule(rule_text) = NoRule THEN hist
    ELSE (parse_rule(rule_text).sid :> rule_text) @@ hist

\* the history after add_rules_from_text
RECURSIVE NoteAdds(_, _)
NoteAdds(hist, lines) ==
    IF lines = <<>> THEN hist
    ELSE NoteAdds(NoteAdd(hist, Head(lines)), Tail(lines))

\* SuricataEngine(db_path) followed by load_default_rules(), as run_suricata_ids
\* and the web interface do at start
StartEngine(e) ==
    /\ ~engine_up[e]
    /\ LET st == load_default_rules(
                     [rows |-> suricata_rules,
                      rules |-> _load_rules_from_db(suricata_rules)])
       IN  /\ suricata_rules' = st.rows
           /\ parser_rules' = [parser_rules EXCEPT ![e] = st.rules]
    /\ engine_up' = [engine_up EXCEPT ![e] = TRUE]
    /\ UNCHANGED <<aggVars, saveVars, matchVars, addVars, laterVars, suricata_alerts, last_add>>

AddRule(e, rule_text) ==
    /\ engine_up[e]
    /\ LET st == add_rule(StoreOf(e), rule_text, "custom")
       IN  /\ suricata_rules' = st.rows
           /\ parser_rules' = [parser_rules EXCEPT ![e] = st.rules]
    /\ last_add' = NoteAdd(last_add, rule_text)
    /\ UNCHANGED <<aggVars, saveVars, matchVars, addVars, laterVars, suricata_alerts, engine_up>>

AddRulesFromText(e, lines) ==
    /\ engine_up[e]
    /\ LET st == add_rules_from_text(StoreOf(e), lines, "custom")
       IN  /\ suricata_rules' = st.rows
           /\ parser_rules' = [parser_rules EXCEPT ![e] = st.rules]
    /\ last_add' = NoteAdds(last_add, lines)
    /\ UNCHANGED <<aggVars, saveVars, matchVars, addVars, laterVars, suricata_alerts, engine_up>>

DeleteRule(e, sid) ==
    /\ engine_up[e]
    /\ LET st == delete_rule(StoreOf(e), sid)
       IN  /\ suricata_rules' = st.rows
           /\ parser_rules' = [parser_rules EXCEPT ![e] = st.rules]
    /\ last_add' = [s \in DOMAIN last_add \ {sid} |-> last_add[s]]
    /\ UNCHANGED <<aggVars, saveVars, matchVars, addVars, laterVars, suricata_alerts, engine_up>>

ToggleRule(e, sid, enabled) ==
    /\ engine_up[e]
    /\ LET st == toggle_rule(StoreOf(e), sid, enabled)
       IN  /\ suricata_rules' = st.rows
           /\ parser_rules' = [parser_rules EXCEPT ![e] = st.rules]
    /\ UNCHANGED <<aggVars, saveVars, matchVars, addVars, laterVars, suricata_alerts, engine_up,
                   last_add>>

CheckPacket(e, packet_event) ==
    /\ engine_up[e]
    /\ Len(suricata_alerts) < MaxAlerts
    /\ suricata_alerts' = suricata_alerts \o check_packet(parser_rules[e], packet_event)
    /\ UNCHANGED <<aggVars, saveVars, matchVars, addVars, laterVars, suricata_rules, parser_rules,
                   engine_up, last_add>>

(***************************************************************************)
(* Packet events fed to the aggregator                                     *)
(***************************************************************************)
SrcIps == {"10.0.0.1", "10.0.0.2"}

\* 59.5 s, 60 s and 125 s, in ticks
Timestamps == {59 * Resolution + (Resolution - 1), 60 * Resolution, 125 * Resolution}

Payloads == {
    [dst_ip |-> "8.8.8.8", dst_port |-> None, packet_size |-> 40],
    [dst_ip |-> "8.8.4.4", dst_port |-> 80,   packet_size |-> 100],
    [dst_ip |-> "8.8.4.4", dst_port |-> 0,    packet_size |-> 40] }

Events == { [timestamp |-> t, src_ip |-> s, dst_ip |-> p.dst_ip,
             src_port |-> None, dst_port |-> p.dst_port, protocol |-> "TCP",
             packet_size |-> p.packet_size, direction |-> "out"]
            : t \in Timestamps, s \in SrcIps, p \in Payloads }

(***************************************************************************)
(* MetricsAggregator                                                       *)
(***************************************************************************)
get_window_key(timestamp) ==
    FloorDiv(PyInt(timestamp), window_seconds) * window_seconds

KeyOf(wd) == <<wd.window_start, wd.src_ip>>

HasKey(cw, key) == \E i \in DOMAIN cw : KeyOf(cw[i]) = key

NewWindow(window_start, src_ip) ==
    [window_start |-> window_start,
     window_end   |-> window_start + window_seconds,
     src_ip       |-> src_ip,
     connections  |-> 0,
     ports        |-> {},
     dst_ips      |-> {},
     total_bytes  |-> 0,
     packet_count |-> 0,
     events       |-> {}]

\* Python truthiness of event.get('dst_port')
Truthy(port) == port # None /\ port # 0

\* process_event with a connection counted only for an event that carries a port
Accumulate_portOnly(cw, event, id) ==
    LET window_start == FloorDiv(PyInt(event.timestamp), window_seconds) * window_seconds
        key == <<window_start, event.src_ip>>
        cw1 == IF HasKey(cw, key) THEN cw
               ELSE Append(cw, NewWindow(window_start, event.src_ip))
    IN  [i \in DOMAIN cw1 |->
           IF KeyOf(cw1[i]) = key
           THEN [cw1[i] EXCEPT
                   !.connections  = IF Truthy(event.dst_port) THEN @ + 1 ELSE @,
                   !.ports        = IF Truthy(event.dst_port)
                                    THEN @ \cup {event.dst_port} ELSE @,
                   !.dst_ips      = @ \cup {event.dst_ip},
                   !.total_bytes  = @ + event.packet_size,
                   !.packet_count = @ + 1,
                   !.events       = @ \cup {id}]
           ELSE cw1[i]]

\* process_event counting an event once per window, however often it is ingested
Accumulate_idempotent(cw, event, id) ==
    LET window_start == FloorDiv(PyInt(event.timestamp), window_seconds) * window_seconds
        key == <<window_start, event.src_ip>>
        cw1 == IF HasKey(cw, key) THEN cw
               ELSE Append(cw, NewWindow(window_start, event.src_ip))
    IN  [i \in DOMAIN cw1 |->
           IF KeyOf(cw1[i]) = key
           THEN IF \E j \in cw1[i].events : raw_events[j] = event
                THEN [cw1[i] EXCEPT !.events = @ \cup {id}]
                ELSE [cw1[i] EXCEPT
                        !.connections  = @ + 1,
                        !.ports        = IF Truthy(event.dst_port)
                                         THEN @ \cup {event.dst_port} ELSE @,
                        !.dst_ips      = @ \cup {event.dst_ip},
                        !.total_bytes  = @ + event.packet_size,
                        !.packet_count = @ + 1,
                        !.events       = @ \cup {id}]
           ELSE cw1[i]]

\* lines 119-144 of process_event: find or create the window and count the event in
Accumulate(cw, event, id) ==
    LET window_start == get_window_key(event.timestamp)
        key == <<window_start, event.src_ip>>
        cw1 == IF HasKey(cw, key) THEN cw
               ELSE Append(cw, NewWindow(window_start, event.src_ip))
    IN  [i \in DOMAIN cw1 |->
           IF KeyOf(cw1[i]) = key
           THEN [cw1[i] EXCEPT
                   !.connections  = @ + 1,
                   !.ports        = IF Truthy(event.dst_port)
                                    THEN @ \cup {event.dst_port} ELSE @,
                   !.dst_ips      = @ \cup {event.dst_ip},
                   !.total_bytes  = @ + event.packet_size,
                   !.packet_count = @ + 1,
                   !.events       = @ \cup {id}]
           ELSE cw1[i]]

\* _flush_old_windows with a strict comparison
IsOld_strict(wd, current_time) ==
    current_time - wd.window_start * Resolution > window_seconds * Resolution

\* the test of _flush_old_windows; current_time is in ticks, window_start in seconds
IsOld(wd, current_time) ==
    current_time - wd.window_start * Resolution >= window_seconds * Resolution

\* avg_packet_size as the exact quotient num/den
avg_packet_size(wd) ==
    IF wd.packet_count > 0 THEN [num |-> wd.total_bytes, den |-> wd.packet_count]
    ELSE [num |-> 0, den |-> 1]

Whole(n) == [num |-> n, den |-> 1]

MetricNames == <<"connections_count", "unique_ports", "unique_dst_ips",
                 "total_bytes", "avg_packet_size">>

MetricValues(wd) ==
    <<Whole(wd.connections), Whole(Cardinality(wd.ports)),
      Whole(Cardinality(wd.dst_ips)), Whole(wd.total_bytes), avg_packet_size(wd)>>

MetricRow(wd, i) ==
    [timestamp    |-> wd.window_end,
     src_ip       |-> wd.src_ip,
     metric_name  |-> MetricNames[i],
     metric_value |-> MetricValues(wd)[i],
     window_start |-> wd.window_start,
     window_end   |-> wd.window_end]

\* the rows one _save_window call inserts and commits
_save_window(wd) == [i \in 1..5 |-> MetricRow(wd, i)]

RECURSIVE SaveAll(_)
SaveAll(wds) == IF wds = <<>> THEN <<>>
                ELSE _save_window(Head(wds)) \o SaveAll(Tail(wds))

\* process_event leaving the windows it has saved in the open-window map
process_event_keepFlushed(event) ==
    /\ raw_events' = Append(raw_events, event)
    /\ LET cw == Accumulate(current_window, event, Len(raw_events) + 1)
           old(wd) == IsOld(wd, event.timestamp)
           windows_to_flush == SelectSeq(cw, old)
       IN  /\ aggregated_metrics' = aggregated_metrics \o SaveAll(windows_to_flush)
           /\ saved_events' = saved_events \o
                  [i \in DOMAIN windows_to_flush |-> windows_to_flush[i].events]
           /\ current_window' = cw

process_event(event) ==
    /\ raw_events' = Append(raw_events, event)
    /\ LET cw == Accumulate(current_window, event, Len(raw_events) + 1)
           old(wd) == IsOld(wd, event.timestamp)
           keep(wd) == ~IsOld(wd, event.timestamp)
           windows_to_flush == SelectSeq(cw, old)
       IN  /\ aggregated_metrics' = aggregated_metrics \o SaveAll(windows_to_flush)
           /\ saved_events' = saved_events \o
                  [i \in DOMAIN windows_to_flush |-> windows_to_flush[i].events]
           /\ current_window' = SelectSeq(cw, keep)

flush_all ==
    /\ aggregated_metrics' = aggregated_metrics \o SaveAll(current_window)
    /\ saved_events' = saved_events \o
           [i \in DOMAIN current_window |-> current_window[i].events]
    /\ current_window' = <<>>

(***************************************************************************)
(* run_aggregator: the loop over the input stream, and the ways it stops   *)
(***************************************************************************)
\* a line holding a JSON event
ReadEvent(event) ==
    /\ agg_pc = "running"
    /\ Len(raw_events) < MaxEvents
    /\ process_event(event)
    /\ UNCHANGED <<agg_pc, saveVars, restVars>>

\* an empty line, a "[...]" service line of the collector, or invalid JSON
SkipLine ==
    /\ agg_pc = "running"
    /\ UNCHANGED vars

\* MetricsAggregator.flush_all called by the owner of the aggregator object
FlushAll ==
    /\ agg_pc = "running"
    /\ current_window # <<>>
    /\ flush_all
    /\ UNCHANGED <<raw_events, agg_pc, saveVars, restVars>>

\* Ctrl-C: the except KeyboardInterrupt branch
KeyboardInterrupt ==
    /\ agg_pc = "running"
    /\ flush_all
    /\ agg_pc' = "interrupted"
    /\ UNCHANGED <<raw_events, saveVars, restVars>>

\* the for loop runs off the end of the input stream
EndOfStream ==
    /\ agg_pc = "running"
    /\ agg_pc' = "eof"
    /\ UNCHANGED <<current_window, raw_events, aggregated_metrics, saved_events, saveVars,
                   restVars>>

\* cleanup() of run_all.py: proc.terminate() delivers SIGTERM, which ends the process
Terminate ==
    /\ agg_pc = "running"
    /\ agg_pc' = "terminated"
    /\ UNCHANGED <<current_window, raw_events, aggregated_metrics, saved_events, saveVars,
                   restVars>>

(***************************************************************************)
(* Exact arithmetic on metric values.  A value is a fraction num/den with  *)
(* den > 0 in lowest terms.  A standard deviation is carried as its square *)
(* (the variance) and a z-score as its square, so that sqrt is never       *)
(* rounded: std >= c is std2 >= c*c, and z >= c is z2 >= c*c.              *)
(***************************************************************************)
RECURSIVE Gcd(_, _)
Gcd(a, b) == IF b = 0 THEN a ELSE Gcd(b, a % b)

Abs(n) == IF n < 0 THEN -n ELSE n

Frac(n, d) ==
    LET g == Gcd(Abs(n), d)
    IN  IF n = 0 THEN [num |-> 0, den |-> 1] ELSE [num |-> n \div g, den |-> d \div g]

Zero == Whole(0)

FAdd(a, b) == Frac(a.num * b.den + b.num * a.den, a.den * b.den)
FSub(a, b) == Frac(a.num * b.den - b.num * a.den, a.den * b.den)
FMul(a, b) == Frac(a.num * b.num, a.den * b.den)
FDivInt(a, n) == Frac(a.num, a.den * n)
FGeq(a, b) == a.num * b.den >= b.num * a.den
FSquare(a) == FMul(a, a)

\* sum(values); the sum is exact, so it is taken by halves to keep the
\* evaluation shallow
RECURSIVE FSumOf(_, _, _)
FSumOf(values, lo, hi) ==
    IF lo > hi THEN Zero
    ELSE IF lo = hi THEN Frac(values[lo].num, values[lo].den)
    ELSE LET mid == (lo + hi) \div 2
         IN  FAdd(FSumOf(values, lo, mid), FSumOf(values, mid + 1, hi))

FSum(values) == FSumOf(values, 1, Len(values))

FMin(values) == CHOOSE v \in Range(values) : \A w \in Range(values) : FGeq(w, v)
FMax(values) == CHOOSE v \in Range(values) : \A w \in Range(values) : FGeq(v, w)

(***************************************************************************)
(* AnomalyDetector (constructed with use_ml=False: the z-score layer)      *)
(***************************************************************************)
z_threshold == 3

\* LIMIT 50 of calculate_statistics
HistoryLimit == 50

\* the metric_value column of the rows, in id order
ValuesOf(rows) == [i \in DOMAIN rows |-> rows[i].metric_value]

\* ORDER BY timestamp DESC LIMIT n: the n rows of greatest timestamp
RECURSIVE Newest(_, _)
Newest(rows, n) ==
    IF Len(rows) <= n THEN rows
    ELSE LET old == CHOOSE i \in DOMAIN rows :
                        \A j \in DOMAIN rows :
                            \/ rows[j].timestamp > rows[i].timestamp
                            \/ rows[j].timestamp = rows[i].timestamp /\ j >= i
         IN  Newest(SubSeq(rows, 1, old - 1) \o SubSeq(rows, old + 1, Len(rows)), n)

MetricRowsOf(rows, src_ip, metric) ==
    LET mine(r) == r.src_ip = src_ip /\ r.metric_name = metric
    IN  SelectSeq(rows, mine)

\* (mean, std, count); std2 is the square of std
calculate_statistics(rows, src_ip, metric) ==
    LET values == ValuesOf(Newest(MetricRowsOf(rows, src_ip, metric), HistoryLimit))
    IN  IF Len(values) < 2 THEN [mean |-> Zero, std2 |-> Zero, count |-> Len(values)]
        ELSE LET mean == FDivInt(FSum(values), Len(values))
                 variance == FDivInt(FSum([i \in DOMAIN values |->
                                              FSquare(FSub(values[i], mean))]),
                                     Len(values))
             IN  [mean |-> mean, std2 |-> variance, count |-> Len(values)]

\* a z-score that takes a std of 0 as a std of 1/10
calculate_z_score2_floored(current_value, mean, std2) ==
    IF std2 = Zero THEN FMul(FSquare(FSub(current_value, mean)), Whole(100))
    ELSE FMul(FSquare(FSub(current_value, mean)), [num |-> std2.den, den |-> std2.num])

\* the square of calculate_z_score
calculate_z_score2(current_value, mean, std2) ==
    IF std2 = Zero THEN Zero
    ELSE FMul(FSquare(FSub(current_value, mean)), [num |-> std2.den, den |-> std2.num])

get_severity(z_score2) ==
    IF FGeq(z_score2, Whole(5 * 5)) THEN "critical"
    ELSE IF FGeq(z_score2, Whole(4 * 4)) THEN "high"
    ELSE IF FGeq(z_score2, Whole(3 * 3)) THEN "medium"
    ELSE "low"

\* the alerts check_metric returns: none or one
check_metric(rows, src_ip, metric_name, current_value) ==
    LET st == calculate_statistics(rows, src_ip, metric_name)
        z_score2 == calculate_z_score2(current_value, st.mean, st.std2)
    IN  IF st.count < 3 THEN <<>>
        ELSE IF FGeq(z_score2, Whole(z_threshold * z_threshold))
        THEN << [src_ip        |-> src_ip,
                 anomaly_type  |-> metric_name,
                 score2        |-> z_score2,
                 current_value |-> current_value,
                 mean_value    |-> st.mean,
                 std2_value    |-> st.std2,
                 severity      |-> get_severity(z_score2)] >>
        ELSE <<>>

\* metrics_to_check of analyze_window and metrics of update_host_profile
metrics_to_check == <<"connections_count", "unique_ports", "unique_dst_ips", "total_bytes">>

RECURSIVE CheckAll(_, _, _)
CheckAll(rows, window_data, names) ==
    IF names = <<>> THEN <<>>
    ELSE check_metric(rows, window_data.src_ip, Head(names), window_data.metrics[Head(names)])
         \o CheckAll(rows, window_data, Tail(names))

analyze_window(rows, window_data) == CheckAll(rows, window_data, metrics_to_check)

\* INSERT OR REPLACE INTO device_profiles: (src_ip, metric_name) is the primary key
UpsertProfile(profiles, row) ==
    {r \in profiles : ~(r.src_ip = row.src_ip /\ r.metric_name = row.metric_name)} \cup {row}

\* the for loop over the metrics holds the call of calculate_statistics only;
\* the statements that follow it run once, with the values of the last metric
update_host_profile(profiles, rows, src_ip) ==
    LET metric_name == metrics_to_check[Len(metrics_to_check)]
        st == calculate_statistics(rows, src_ip, metric_name)
        all == ValuesOf(MetricRowsOf(rows, src_ip, metric_name))
    IN  UpsertProfile(profiles,
            [src_ip       |-> src_ip,
             metric_name  |-> metric_name,
             mean         |-> st.mean,
             std2         |-> st.std2,
             min_value    |-> IF all = <<>> THEN Zero ELSE FMin(all),
             max_value    |-> IF all = <<>> THEN Zero ELSE FMax(all),
             sample_count |-> st.count])

\* the src_ip values of the table
HostsOf(rows) == {rows[i].src_ip : i \in DOMAIN rows}

\* the dict run_detection fills from the rows of (src_ip, window_start); a
\* later row of a metric overwrites an earlier one
WindowData(rows, src_ip, window_start) ==
    LET mine(r) == r.src_ip = src_ip /\ r.window_start = window_start
        found == SelectSeq(rows, mine)
        names == {found[i].metric_name : i \in DOMAIN found}
        last(name) == CHOOSE i \in DOMAIN found :
                          /\ found[i].metric_name = name
                          /\ \A j \in DOMAIN found : found[j].metric_name = name => j <= i
    IN  [src_ip       |-> src_ip,
         window_start |-> window_start,
         metrics      |-> [name \in names |-> found[last(name)].metric_value]]

WindowsOfHost(rows, src_ip) ==
    {rows[i].window_start : i \in {j \in DOMAIN rows : rows[j].src_ip = src_ip}}

\* one run_detection call.  The SELECT ... GROUP BY src_ip gives one row per
\* host in no stated order, and its window_start is that of some row of the
\* host.  The for loop over these rows only fills window_data; the analysis,
\* the saving of alerts and the profile update follow the loop and so run
\* once, for the host the loop ended on.  On an empty table window_data is
\* unbound and the call raises, which ends run_detector.
RunDetection ==
    /\ detect_pc = "running"
    /\ Len(cycle) < MaxCycles
    /\ IF aggregated_metrics = <<>>
       THEN /\ detect_pc' = "crashed"
            /\ cycle' = Append(cycle, [present |-> {}, analysed |-> {}, window_data |-> <<>>,
                                       emitted |-> <<>>, rows |-> aggregated_metrics])
            /\ UNCHANGED <<device_profiles, alerts>>
       ELSE \E src_ip \in HostsOf(aggregated_metrics) :
             \E window_start \in WindowsOfHost(aggregated_metrics, src_ip) :
               LET window_data == WindowData(aggregated_metrics, src_ip, window_start)
                   found == analyze_window(aggregated_metrics, window_data)
               IN  /\ alerts' = alerts \o found
                   /\ device_profiles' =
                          update_host_profile(device_profiles, aggregated_metrics, src_ip)
                   /\ cycle' = Append(cycle, [present     |-> HostsOf(aggregated_metrics),
                                              analysed    |-> {src_ip},
                                              window_data |-> window_data.metrics,
                                              emitted     |-> found,
                                              rows        |-> aggregated_metrics])
                   /\ UNCHANGED detect_pc
    /\ UNCHANGED <<aggVars, saveVars, matchVars, engineVars, addVars, moreVars, trainerVars, mlVars>>

\* a window of a host as the aggregator stores it: level connections to level
\* ports of one destination, packets of 40 * level bytes
DetectWindow(src_ip, k, level) ==
    [NewWindow(k * window_seconds, src_ip) EXCEPT
        !.connections = level, !.ports = 1..level, !.dst_ips = {"8.8.8.8"},
        !.total_bytes = 40 * level * level, !.packet_count = level]

\* the aggregator saves one more window between two detection cycles
StoreWindow(src_ip, level) ==
    /\ detect_pc = "running"
    /\ cycle # <<>>
    /\ cycle[Len(cycle)].rows = aggregated_metrics
    /\ aggregated_metrics' = aggregated_metrics \o
           _save_window(DetectWindow(src_ip,
                                     Cardinality(WindowsOfHost(aggregated_metrics, src_ip)),
                                     level))
    /\ UNCHANGED <<current_window, raw_events, agg_pc, saved_events, saveVars, restVars>>

(***************************************************************************)
(* AdaptiveTrainer.  A profile keeps, per metric, a mean (a fraction) and  *)
(* a std.  A std is a sum of terms coef * sqrt(var), kept as the sequence  *)
(* of its terms, so that the EWMA blend of two std values is exact.        *)
(***************************************************************************)
\* the default constructor parameters
learning_window == 100
sliding_window_size == 50
ewma_alpha == Frac(1, 10)
min_std_deviation2 == Frac(1, 10000)

DefaultTrainer ==
    [learning_window |-> learning_window, sliding_window_size |-> sliding_window_size]

\* coef * std, for a std given by its terms
Scale(coef, std) == [i \in DOMAIN std |-> [coef |-> FMul(coef, std[i].coef), var |-> std[i].var]]

\* SELECT is_learning FROM host_profiles: a host without a row is learning
is_in_learning_mode(profiles, src_ip) ==
    \A r \in profiles : r.src_ip = src_ip => r.is_learning

\* add_metrics_sample without the protection against anomalous samples
Skips_never(profiles, src_ip, is_anomaly) == FALSE

\* add_metrics_sample returns False without touching the tables
Skips(profiles, src_ip, is_anomaly) ==
    is_anomaly /\ ~is_in_learning_mode(profiles, src_ip)

\* WHERE src_ip = ? AND is_anomaly = 0 ORDER BY timestamp DESC LIMIT n
NormalSamples(history, src_ip, n) ==
    LET normal(r) == r.src_ip = src_ip /\ ~r.is_anomaly
        found == SelectSeq(history, normal)
    IN  IF Len(found) <= n THEN found ELSE SubSeq(found, Len(found) - n + 1, Len(found))

\* calc_stats: (mean, std), std being min_std_deviation when the variance is 0
calc_stats(values) ==
    IF values = <<>>
    THEN [mean |-> Zero, std |-> <<[coef |-> Whole(1), var |-> min_std_deviation2]>>]
    ELSE LET mean == FDivInt(FSum(values), Len(values))
             variance == FDivInt(FSum([i \in DOMAIN values |->
                                          FSquare(FSub(values[i], mean))]),
                                 Len(values))
         IN  [mean |-> mean,
              std  |-> <<[coef |-> Whole(1),
                          var  |-> IF variance.num > 0 THEN variance
                                   ELSE min_std_deviation2]>>]

\* the tables after _update_host_profile
_update_host_profile(tr, history, profiles, src_ip) ==
    LET samples == NormalSamples(history, src_ip, tr.sliding_window_size)
        current == {r \in profiles : r.src_ip = src_ip}
        fresh == [m \in Range(MetricNames) |->
                     calc_stats([i \in DOMAIN samples |-> samples[i].values[m]])]
        blend == current # {} /\ ~is_in_learning_mode(profiles, src_ip)
        current_profile == CHOOSE r \in current : TRUE
        row == [src_ip        |-> src_ip,
                mean          |-> [m \in Range(MetricNames) |->
                                      IF blend
                                      THEN FAdd(FMul(ewma_alpha, fresh[m].mean),
                                                FMul(FSub(Whole(1), ewma_alpha),
                                                     current_profile.mean[m]))
                                      ELSE fresh[m].mean],
                std           |-> [m \in Range(MetricNames) |->
                                      IF blend
                                      THEN Scale(ewma_alpha, fresh[m].std)
                                           \o Scale(FSub(Whole(1), ewma_alpha),
                                                    current_profile.std[m])
                                      ELSE fresh[m].std],
                samples_count |-> Len(samples),
                is_learning   |-> Len(samples) < tr.learning_window,
                blended       |-> blend]
    IN  IF samples = <<>> THEN profiles
        ELSE (profiles \ current) \cup {row}

\* the metrics dict of a sample of the level
SampleOf(level) ==
    [m \in Range(MetricNames) |->
        CASE m = "connections_count" -> Whole(level)
          [] m = "unique_ports"      -> Whole(level)
          [] m = "unique_dst_ips"    -> Whole(1)
          [] m = "total_bytes"       -> Whole(40 * level * level)
          [] m = "avg_packet_size"   -> Whole(40 * level)]

TrainerState == [history |-> metrics_history, profiles |-> host_profiles]

add_metrics_sample(src_ip, metrics, is_anomaly) ==
    /\ Len(t_call) < MaxCalls
    /\ IF Skips(host_profiles, src_ip, is_anomaly)
       THEN /\ UNCHANGED <<metrics_history, host_profiles>>
            /\ t_call' = Append(t_call, [op |-> "add_metrics_sample", src_ip |-> src_ip,
                                         is_anomaly |-> is_anomaly, result |-> FALSE,
                                         learning |-> FALSE, before |-> TrainerState])
       ELSE /\ metrics_history' = Append(metrics_history,
                                         [src_ip |-> src_ip, values |-> metrics,
                                          is_anomaly |-> is_anomaly])
            /\ host_profiles' = _update_host_profile(trainer, metrics_history',
                                                     host_profiles, src_ip)
            /\ t_call' = Append(t_call, [op |-> "add_metrics_sample", src_ip |-> src_ip,
                                         is_anomaly |-> is_anomaly, result |-> TRUE,
                                         learning |-> is_in_learning_mode(host_profiles, src_ip),
                                         before |-> TrainerState])
    /\ UNCHANGED <<aggVars, saveVars, matchVars, engineVars, addVars, moreVars, detectVars, mlVars,
                   trainer>>

\* UPDATE host_profiles SET is_learning = ? WHERE src_ip = ?
set_learning_mode(src_ip, enabled) ==
    /\ Len(t_call) < MaxCalls
    /\ host_profiles' = {IF r.src_ip = src_ip THEN [r EXCEPT !.is_learning = enabled] ELSE r :
                            r \in host_profiles}
    /\ t_call' = Append(t_call, [op |-> "set_learning_mode", src_ip |-> src_ip,
                                 enabled |-> enabled,
                                 is_anomaly |-> FALSE, result |-> TRUE,
                                 learning |-> is_in_learning_mode(host_profiles, src_ip),
                                 before |-> TrainerState])
    /\ UNCHANGED <<aggVars, saveVars, matchVars, engineVars, addVars, moreVars, detectVars, mlVars,
                   trainer, metrics_history>>

reset_profile(src_ip) ==
    /\ Len(t_call) < MaxCalls
    /\ LET other(r) == r.src_ip # src_ip
       IN  metrics_history' = SelectSeq(metrics_history, other)
    /\ host_profiles' = {r \in host_profiles : r.src_ip # src_ip}
    /\ t_call' = Append(t_call, [op |-> "reset_profile", src_ip |-> src_ip,
                                 is_anomaly |-> FALSE, result |-> TRUE,
                                 learning |-> is_in_learning_mode(host_profiles, src_ip),
                                 before |-> TrainerState])
    /\ UNCHANGED <<aggVars, saveVars, matchVars, engineVars, addVars, moreVars, detectVars, mlVars,
                   trainer>>

\* a normal sample of the one host, for a trainer built with the defaults
AddNormalSample ==
    /\ Len(metrics_history) < MaxLearnSamples
    /\ metrics_history' = Append(metrics_history,
                                 [src_ip |-> "10.0.0.1", values |-> SampleOf(1),
                                  is_anomaly |-> FALSE])
    /\ host_profiles' = _update_host_profile(trainer, metrics_history', host_profiles,
                                             "10.0.0.1")
    /\ UNCHANGED <<aggVars, saveVars, matchVars, engineVars, addVars, moreVars, detectVars, mlVars,
                   trainer, t_call>>

(***************************************************************************)
(* MLAnomalyDetector: the training table, the training gate and the model  *)
(* artifact.  A fitted estimator is kept as the rows it was fitted on      *)
(* (IsolationForest is built with random_state = 42, so the fit is a       *)
(* function of its input); the pickle written by _save_model is taken to   *)
(* be written, the open() of model_path succeeding.                        *)
(***************************************************************************)
min_training_samples == 50

FEATURE_NAMES == <<"connections_count", "unique_ports", "unique_dst_ips",
                   "total_bytes", "avg_packet_size">>

\* self.model = None, self.scaler = None
NoEstimator == [fitted |-> FALSE, fit_on |-> <<>>]

\* the object __init__ leaves when no file is at model_path
NewDetector == [model |-> NoEstimator, scaler |-> NoEstimator, is_trained |-> FALSE,
                min_training_samples |-> min_training_samples]

NoModelFile == [exists |-> FALSE, model |-> NoEstimator, scaler |-> NoEstimator,
                feature_names |-> <<>>, trained_at |-> 0]

\* _load_model: what the constructor reads back from model_path
_load_model(file) ==
    IF file.exists
    THEN [NewDetector EXCEPT !.model = file.model, !.scaler = file.scaler,
                             !.is_trained = TRUE]
    ELSE NewDetector

\* the row both collectors insert: metrics.get(name, 0) per feature, is_normal = 1;
\* timestamp in ticks of 1/Resolution second
TrainingRow(src_ip, timestamp, metrics, of_window) ==
    [src_ip    |-> src_ip,
     timestamp |-> timestamp,
     features  |-> [i \in 1..Len(FEATURE_NAMES) |->
                       IF FEATURE_NAMES[i] \in DOMAIN metrics
                       THEN metrics[FEATURE_NAMES[i]] ELSE Zero],
     is_normal |-> 1,
     of_window |-> of_window]   \* history: the window_start it was copied from

\* SELECT DISTINCT src_ip, window_start FROM aggregated_metrics
WindowsOf(rows) == {<<rows[i].src_ip, rows[i].window_start>> : i \in DOMAIN rows}

\* one turn of the loop of collect_from_aggregated
CollectWindow(rows, w, table) ==
    LET known   == \E i \in DOMAIN table :
                      /\ table[i].src_ip = w[1]
                      /\ Abs(table[i].timestamp - w[2] * Resolution) < Resolution
        metrics == WindowData(rows, w[1], w[2]).metrics
    IN  IF known THEN table
        ELSE IF Cardinality(DOMAIN metrics) >= 3
             THEN Append(table, TrainingRow(w[1], w[2] * Resolution, metrics, w[2]))
             ELSE table

\* collect_from_aggregated: the tables it can leave.  The windows come ORDER BY
\* window_start; the order among windows of one window_start is the engine's.
RECURSIVE collect_from_aggregated(_, _, _)
collect_from_aggregated(rows, todo, table) ==
    IF todo = {} THEN {table}
    ELSE LET first == {w \in todo : \A v \in todo : w[2] <= v[2]}
         IN  UNION {collect_from_aggregated(rows, todo \ {w}, CollectWindow(rows, w, table)) :
                       w \in first}

\* SELECT ... FROM ml_training_data WHERE is_normal = 1
NormalRows(table) ==
    LET normal(r) == r.is_normal = 1
    IN  SelectSeq(table, normal)

FeaturesOf(table) == [i \in DOMAIN NormalRows(table) |-> NormalRows(table)[i].features]

\* if self.is_trained and not force
AlreadyTrained_never(is_trained, force) == FALSE

AlreadyTrained(is_trained, force) == is_trained /\ ~force

\* if n_samples < self.min_training_samples
Insufficient_atMost(n_samples, required) == n_samples <= required

Insufficient(n_samples, required) == n_samples < required

\* StandardScaler().fit(X) and IsolationForest(n_estimators=100, random_state=42).fit(X)
Fit(X) == [fitted |-> TRUE, fit_on |-> X]

\* the database and the object of the detector
MlState == [ml_training_data |-> ml_training_data, ml_model_metrics |-> ml_model_metrics,
            ml |-> ml, model_file |-> model_file]

\* the result dictionary: status, and n_samples (current_samples when insufficient)
Result(status, n_samples) == [status |-> status, n_samples |-> n_samples]

MlCall(op, force, result) ==
    [op |-> op, force |-> force, result |-> result, before |-> MlState]

\* train(force) on the detector and database of state st, at the time trained_at:
\* what it can leave, and the result it returns
train_outcomes(st, rows, force, trained_at) ==
    IF AlreadyTrained(st.ml.is_trained, force)
    THEN {[after |-> st, result |-> Result("already_trained", 0)]}
    ELSE {LET X         == FeaturesOf(table)
              n_samples == Len(X)
          IN  IF Insufficient(n_samples, st.ml.min_training_samples)
              THEN [after  |-> [st EXCEPT !.ml_training_data = table],
                    result |-> Result("insufficient_data", n_samples)]
              ELSE [after  |-> [ml_training_data |-> table,
                                ml_model_metrics |-> Append(st.ml_model_metrics,
                                    [n_samples  |-> n_samples,
                                     n_features |-> Len(FEATURE_NAMES)]),
                                ml |-> [st.ml EXCEPT !.scaler = Fit(X), !.model = Fit(X),
                                                     !.is_trained = TRUE],
                                model_file |-> [exists        |-> TRUE,
                                                model         |-> Fit(X),
                                                scaler        |-> Fit(X),
                                                feature_names |-> FEATURE_NAMES,
                                                trained_at    |-> trained_at]],
                    result |-> Result("trained", n_samples)] :
            table \in collect_from_aggregated(rows, WindowsOf(rows), st.ml_training_data)}

\* train(force), called as op
Train(op, force) ==
    /\ Len(ml_call) < MaxMlCalls
    /\ \E out \in train_outcomes(MlState, aggregated_metrics, force, Len(ml_call) + 1) :
          /\ ml_training_data' = out.after.ml_training_data
          /\ ml_model_metrics' = out.after.ml_model_metrics
          /\ ml' = out.after.ml
          /\ model_file' = out.after.model_file
          /\ ml_call' = Append(ml_call, MlCall(op, force, out.result))
    /\ UNCHANGED <<aggVars, saveVars, matchVars, engineVars, addVars, moreVars, detectVars,
                   trainerVars>>

train(force) == Train("train", force)

\* HybridScorer.auto_train_ml: already_trained if is_trained, else train()
auto_train_ml == Train("auto_train_ml", FALSE)

\* collect_training_data(src_ip, metrics) at the time timestamp
collect_training_data(src_ip, metrics, timestamp) ==
    /\ Len(ml_call) < MaxMlCalls
    /\ ml_training_data' = Append(ml_training_data,
                                  TrainingRow(src_ip, timestamp, metrics, None))
    /\ ml_call' = Append(ml_call, MlCall("collect_training_data", FALSE, Result("", 0)))
    /\ UNCHANGED <<aggVars, saveVars, matchVars, engineVars, addVars, moreVars, detectVars,
                   trainerVars, ml_model_metrics, ml, model_file>>

\* the process is started again: MLAnomalyDetector(db_path, model_path)
NewMLAnomalyDetector ==
    /\ Len(ml_call) < MaxMlCalls
    /\ ml' = _load_model(model_file)
    /\ ml_call' = Append(ml_call, MlCall("__init__", FALSE, Result("", 0)))
    /\ UNCHANGED <<aggVars, saveVars, matchVars, engineVars, addVars, moreVars, detectVars,
                   trainerVars, ml_training_data, ml_model_metrics, model_file>>

(***************************************************************************)
(* MLAnomalyDetector.detect and the detector's own cycle.  The two         *)
(* logistic expressions (of the largest z-score, and of the forest's       *)
(* decision function) are not computed: their values are inputs, given as  *)
(* fractions of [0, 1].                                                    *)
(***************************************************************************)
One == Whole(1)

\* self.alpha = 0.4
alpha_half == Frac(1, 2)

alpha == Frac(2, 5)

COMBINED_THRESHOLD == Frac(1, 2)

FLess(a, b) == ~FGeq(a, b)

\* _get_ml_score: 0.0 unless trained, else the clipped logistic, here `decided`
_get_ml_score(detector, decided) ==
    IF ~detector.is_trained \/ ~detector.model.fitted THEN Zero ELSE decided

MlSeverity(combined) ==
    CASE FGeq(combined, Frac(9, 10)) -> "critical"
      [] FLess(combined, Frac(9, 10)) /\ FGeq(combined, Frac(3, 4)) -> "high"
      [] FLess(combined, Frac(3, 4)) /\ FGeq(combined, Frac(3, 5)) -> "medium"
      [] OTHER -> "low"

\* detect(src_ip, metrics): <<>> for None, else the one MLAlert
detect(detector, src_ip, stat_score, decided) ==
    LET scored   == _get_ml_score(detector, decided)
        combined == IF detector.is_trained
                    THEN FAdd(FMul(alpha, stat_score), FMul(FSub(One, alpha), scored))
                    ELSE stat_score
        ml_score == IF detector.is_trained THEN scored ELSE Zero
    IN  IF FLess(combined, COMBINED_THRESHOLD) THEN <<>>
        ELSE <<[src_ip         |-> src_ip,
                ml_score       |-> ml_score,
                stat_score     |-> stat_score,
                combined_score |-> combined,
                severity       |-> MlSeverity(combined),
                model_trained  |-> detector.is_trained]>>   \* history

\* SELECT MAX(timestamp) FROM aggregated_metrics WHERE src_ip = ?
LastTimestamp(rows, src_ip) ==
    LET mine == {i \in DOMAIN rows : rows[i].src_ip = src_ip}
    IN  rows[CHOOSE i \in mine : \A j \in mine : rows[j].timestamp <= rows[i].timestamp].timestamp

\* SELECT DISTINCT src_ip, window_start ... WHERE (src_ip, timestamp) IN
\* (SELECT src_ip, MAX(timestamp) ... GROUP BY src_ip)
LatestWindows(rows) ==
    {<<rows[i].src_ip, rows[i].window_start>> :
        i \in {j \in DOMAIN rows : rows[j].timestamp = LastTimestamp(rows, rows[j].src_ip)}}

\* the loop of run_detection over the windows todo, at the time now: the training
\* tables and alert tables it can leave (the order of the windows is the engine's)
RECURSIVE DetectLoop(_, _, _, _, _, _, _)
DetectLoop(detector, rows, todo, inputs, now, table, found) ==
    IF todo = {} THEN {[ml_training_data |-> table, ml_alerts |-> found]}
    ELSE UNION {
           LET metrics == WindowData(rows, w[1], w[2]).metrics
           IN  IF Cardinality(DOMAIN metrics) < 3
               THEN DetectLoop(detector, rows, todo \ {w}, inputs, now, table, found)
               ELSE DetectLoop(detector, rows, todo \ {w}, inputs, now,
                               Append(table, TrainingRow(w[1], now, metrics, w[2])),
                               found \o detect(detector, w[1], inputs[w].stat_score,
                                               inputs[w].decided)) :
           w \in todo}

\* the values the logistic expressions are given
Scores == {Zero, Frac(1, 2), One}

\* the time of a cycle: the last window has closed
NowAfter(rows) ==
    IF rows = <<>> THEN 0
    ELSE (rows[CHOOSE i \in DOMAIN rows :
                  \A j \in DOMAIN rows : rows[j].timestamp <= rows[i].timestamp].timestamp
          + 1) * Resolution

\* MLAnomalyDetector.run_detection, one cycle of run_ml_detector
MlRunDetection ==
    /\ Len(ml_call) < MaxMlCalls
    /\ LET now     == NowAfter(aggregated_metrics)
           trained == IF ml.is_trained
                      THEN {[after |-> MlState, result |-> Result("", 0)]}
                      ELSE train_outcomes(MlState, aggregated_metrics, FALSE,
                                          Len(ml_call) + 1)
           windows == LatestWindows(aggregated_metrics)
       IN  \E out \in trained :
           \E inputs \in [windows -> [stat_score : Scores, decided : Scores]] :
           \E done \in DetectLoop(out.after.ml, aggregated_metrics, windows, inputs, now,
                                  out.after.ml_training_data, <<>>) :
              /\ ml_training_data' = done.ml_training_data
              /\ ml_alerts' = ml_alerts \o done.ml_alerts
              /\ ml_model_metrics' = out.after.ml_model_metrics
              /\ ml' = out.after.ml
              /\ model_file' = out.after.model_file
              /\ ml_call' = Append(ml_call, MlCall("run_detection", FALSE, out.result))
    /\ UNCHANGED <<aggVars, saveVars, matchVars, engineVars, addVars, detectVars,
                   trainerVars, scorer, hybrid_verdicts, h_call, h_worker, raceVars, pureVars>>

(***************************************************************************)
(* HybridScorer.  The scorer holds up to three components; the statistical *)
(* and the ML layer hand it the value of a logistic expression, which is   *)
(* an input here, and the signature layer computes its score from table    *)
(* suricata_alerts.  Times are in ticks.                                   *)
(***************************************************************************)
w_sig == Frac(2, 5)
w_stat == Frac(1, 4)
w_ml == Frac(7, 20)

\* SEVERITY_THRESHOLDS, in the order the dictionary is iterated
SEVERITY_THRESHOLDS ==
    <<[severity |-> "critical", threshold |-> Frac(17, 20)],
      [severity |-> "high",     threshold |-> Frac(13, 20)],
      [severity |-> "medium",   threshold |-> Frac(9, 20)],
      [severity |-> "low",      threshold |-> Frac(1, 4)]>>

\* severity_weights.get(sev, 0.5)
severity_weights(sev) ==
    CASE sev = "critical" -> One
      [] sev = "high"     -> Frac(3, 4)
      [] sev = "medium"   -> Frac(1, 2)
      [] sev = "low"      -> Frac(1, 4)
      [] OTHER            -> Frac(1, 2)

time_window_seconds == 120
AlertLimit == 20

\* _get_suricata_score(src_ip) at the time now, for a scorer with or without an engine
_get_suricata_score(present, table, src_ip, now) ==
    LET recent(r) == r.src_ip = src_ip /\ r.timestamp > now - time_window_seconds * Resolution
        rows      == Newest(SelectSeq(table, recent), AlertLimit)
        weights   == [i \in DOMAIN rows |-> severity_weights(rows[i].severity)]
        count_factor == IF Len(rows) >= 5 THEN One ELSE Frac(Len(rows), 5)
        score     == FMul(FMax(weights), FAdd(Frac(1, 2), FMul(Frac(1, 2), count_factor)))
    IN  IF ~present \/ rows = <<>> THEN Zero
        ELSE IF FGeq(score, One) THEN One ELSE score

\* round(x, 4) of a fraction that is not negative, digit by digit (a tie goes
\* to the even digit)
RECURSIVE Digit4(_, _, _, _)
Digit4(q, r, den, k) ==
    IF k = 0 THEN [q |-> q, r |-> r]
    ELSE Digit4(q * 10 + (r * 10) \div den, (r * 10) % den, den, k - 1)

Round4(x) ==
    LET d  == Digit4(x.num \div x.den, x.num % x.den, x.den, 4)
        up == 2 * d.r > x.den \/ (2 * d.r = x.den /\ d.q % 2 = 1)
    IN  Frac(IF up THEN d.q + 1 ELSE d.q, 10000)

\* self.ml_detector is not None and self.ml_detector.is_trained
ml_active_untrained(sc, is_trained) == sc.ml_detector

ml_active(sc, is_trained) == sc.ml_detector /\ is_trained

\* the scores the three _get_*_score methods return, given the values of the logistics
LayerScores(sc, is_trained, table, src_ip, now, stat_value, ml_value) ==
    [sig  |-> _get_suricata_score(sc.suricata_engine, table, src_ip, now),
     stat |-> IF sc.anomaly_detector THEN stat_value ELSE Zero,
     ml   |-> IF sc.ml_detector /\ is_trained THEN ml_value ELSE Zero]

HybridSeverity(combined) ==
    LET hit == {i \in DOMAIN SEVERITY_THRESHOLDS :
                   FGeq(combined, SEVERITY_THRESHOLDS[i].threshold)}
    IN  IF hit = {} THEN "info"
        ELSE SEVERITY_THRESHOLDS[CHOOSE i \in hit : \A j \in hit : i <= j].severity

\* score_host, given the layer scores: the HybridVerdict, and as history the
\* weights it applied, the layers it counted and the score before rounding
score_host(sc, is_trained, src_ip, scores) ==
    LET weights == [sig  |-> IF sc.suricata_engine THEN w_sig ELSE Zero,
                    stat |-> IF sc.anomaly_detector THEN w_stat ELSE Zero,
                    ml   |-> IF ml_active(sc, is_trained) THEN w_ml ELSE Zero]
        triggered_layers ==
              (IF sc.suricata_engine /\ ~FGeq(Frac(1, 4), scores.sig) THEN 1 ELSE 0)
            + (IF sc.anomaly_detector /\ ~FGeq(Frac(1, 2), scores.stat) THEN 1 ELSE 0)
            + (IF ml_active(sc, is_trained) /\ ~FGeq(Frac(1, 2), scores.ml) THEN 1 ELSE 0)
        total_weight == FAdd(weights.sig, FAdd(weights.stat, weights.ml))
        norm(w) == IF total_weight # Zero
                   THEN Frac(w.num * total_weight.den, w.den * total_weight.num)
                   ELSE Zero
        summed   == FAdd(FMul(norm(weights.sig), scores.sig),
                         FAdd(FMul(norm(weights.stat), scores.stat),
                              FMul(norm(weights.ml), scores.ml)))
        boosted  == IF triggered_layers >= 3 THEN FMul(summed, Frac(13, 10))
                    ELSE IF triggered_layers >= 2 THEN FMul(summed, Frac(23, 20))
                    ELSE summed
        combined == IF FGeq(boosted, One) THEN One
                    ELSE IF FGeq(Zero, boosted) THEN Zero ELSE boosted
    IN  [src_ip           |-> src_ip,
         suricata_score   |-> Round4(scores.sig),
         stat_score       |-> Round4(scores.stat),
         ml_score         |-> Round4(scores.ml),
         combined_score   |-> Round4(combined),
         severity         |-> HybridSeverity(combined),
         confidence       |-> CASE triggered_layers >= 3 -> "high"
                                [] triggered_layers = 2  -> "medium"
                                [] triggered_layers = 1  -> "low"
                                [] OTHER                 -> "none",
         \* history
         applied          |-> [sig  |-> norm(weights.sig), stat |-> norm(weights.stat),
                               ml   |-> norm(weights.ml)],
         summed           |-> summed,
         triggered_layers |-> triggered_layers,
         unrounded        |-> combined]

\* HybridScorer._get_stat_score: the squared z-scores it collects, one per feature
\* that has at least three values and a std that is not zero
ZScores2(rows, src_ip, metrics) ==
    {LET st == calculate_statistics(rows, src_ip, name)
         current_value == IF name \in DOMAIN metrics THEN metrics[name] ELSE Zero
     IN  calculate_z_score2(current_value, st.mean, st.std2) :
        name \in {n \in Range(FEATURE_NAMES) :
                     LET st == calculate_statistics(rows, src_ip, n)
                     IN  st.count >= 3 /\ st.std2 # Zero}}

\* the values 1 / (1 + exp(-(max_z - threshold))) can be given: 0.5 where max_z is
\* the threshold, less below it, more above it
StatValues(sc, rows, src_ip, metrics, grid) ==
    LET zs    == ZScores2(rows, src_ip, metrics)
        max_z2 == CHOOSE z \in zs : \A y \in zs : FGeq(z, y)
        limit == Whole(z_threshold * z_threshold)
    IN  IF ~sc.anomaly_detector \/ zs = {} THEN {Zero}
        ELSE IF max_z2 = limit THEN {Frac(1, 2)}
        ELSE IF FGeq(max_z2, limit) THEN grid.above
        ELSE grid.below

\* the values ml_detector._get_ml_score can be given
MlValues(sc, detector, grid) ==
    IF sc.ml_detector /\ detector.is_trained THEN grid.ml ELSE {Zero}

\* if verdict.combined_score >= self.SEVERITY_THRESHOLDS['low']
Persisted_always(verdict) == TRUE

Persisted(verdict) == FGeq(verdict.combined_score, SEVERITY_THRESHOLDS[4].threshold)

\* SELECT DISTINCT src_ip FROM aggregated_metrics WHERE timestamp > now - 300
ActiveHosts(rows, now) ==
    {rows[i].src_ip : i \in {j \in DOMAIN rows :
                                rows[j].timestamp * Resolution > now - 300 * Resolution}}

\* the rows of the host's last timestamp, as a dictionary
LastMetrics(rows, src_ip) ==
    LET last  == LastTimestamp(rows, src_ip)
        mine(r) == r.src_ip = src_ip /\ r.timestamp = last
        found == SelectSeq(rows, mine)
    IN  [window_start |-> found[Len(found)].window_start,
         metrics      |-> [name \in {found[i].metric_name : i \in DOMAIN found} |->
                              found[CHOOSE i \in DOMAIN found :
                                       /\ found[i].metric_name = name
                                       /\ \A j \in DOMAIN found :
                                             found[j].metric_name = name => j <= i
                                   ].metric_value]]

\* the loop of run_scoring_cycle over the hosts todo: what it can leave in
\* hybrid_verdicts and ml_training_data, and as history the calls of score_host
RECURSIVE ScoringLoop(_, _, _)
ScoringLoop(cx, todo, acc) ==
    IF todo = {} THEN {acc}
    ELSE UNION {
           LET last == LastMetrics(cx.rows, src_ip)
           IN  IF Cardinality(DOMAIN last.metrics) < 3
               THEN ScoringLoop(cx, todo \ {src_ip}, acc)
               ELSE UNION {
                      LET scores  == LayerScores(cx.sc, cx.ml.is_trained, cx.alerts, src_ip,
                                                 cx.now, stat_value, ml_value)
                          verdict == score_host(cx.sc, cx.ml.is_trained, src_ip, scores)
                          saved   == Persisted(verdict)
                      IN  ScoringLoop(cx, todo \ {src_ip},
                            [hybrid_verdicts |->
                                 IF saved
                                 THEN Append(acc.hybrid_verdicts,
                                             [verdict |-> verdict, cycle |-> cx.cycle])
                                 ELSE acc.hybrid_verdicts,
                             ml_training_data |->
                                 IF cx.sc.ml_detector
                                 THEN Append(acc.ml_training_data,
                                             TrainingRow(src_ip, cx.now, last.metrics,
                                                         last.window_start))
                                 ELSE acc.ml_training_data,
                             calls |-> Append(acc.calls,
                                 [cycle   |-> cx.cycle,
                                  now     |-> cx.now,
                                  src_ip  |-> src_ip,
                                  scores  |-> scores,
                                  verdict |-> verdict,
                                  saved   |-> saved,
                                  ml_active |-> cx.sc.ml_detector /\ cx.ml.is_trained,
                                  model   |-> cx.ml.model])]) :
                      stat_value \in StatValues(cx.sc, cx.rows, src_ip, last.metrics, cx.grid),
                      ml_value \in MlValues(cx.sc, cx.ml, cx.grid)} :
           src_ip \in todo}

\* if cycle % 10 == 1
AutoTrainDue_first(cycle_no) == cycle_no = 1

AutoTrainDue(cycle_no) == cycle_no % 10 = 1

\* auto_train_ml(): None without a detector, already_trained, or what train() returns
auto_train_outcomes(sc, st, rows, trained_at) ==
    IF ~sc.ml_detector THEN {[after |-> st, result |-> Result("None", 0)]}
    ELSE IF st.ml.is_trained THEN {[after |-> st, result |-> Result("already_trained", 0)]}
    ELSE train_outcomes(st, rows, FALSE, trained_at)

\* one turn of the loop of run_hybrid_scorer: cycle += 1, every tenth cycle
\* auto_train_ml(), then run_scoring_cycle()
HybridCycle(grid, max_cycles) ==
    /\ h_worker.cycle < max_cycles
    /\ LET cycle_no == h_worker.cycle + 1
           now      == NowAfter(aggregated_metrics)
           trained  == IF AutoTrainDue(cycle_no)
                       THEN auto_train_outcomes(scorer, MlState, aggregated_metrics, cycle_no)
                       ELSE {[after |-> MlState, result |-> Result("", 0)]}
       IN  \E out \in trained :
           \E done \in ScoringLoop([sc |-> scorer, ml |-> out.after.ml,
                                    rows |-> aggregated_metrics, alerts |-> suricata_alerts,
                                    now |-> now, cycle |-> cycle_no, grid |-> grid],
                                   ActiveHosts(aggregated_metrics, now),
                                   [hybrid_verdicts |-> hybrid_verdicts,
                                    ml_training_data |-> out.after.ml_training_data,
                                    calls |-> <<>>]) :
              /\ hybrid_verdicts' = done.hybrid_verdicts
              /\ ml_training_data' = done.ml_training_data
              /\ ml_model_metrics' = out.after.ml_model_metrics
              /\ ml' = out.after.ml
              /\ model_file' = out.after.model_file
              /\ h_call' = h_call \o done.calls
              /\ h_worker' = [cycle    |-> cycle_no,
                              attempts |-> Append(h_worker.attempts,
                                             [attempted |-> AutoTrainDue(cycle_no),
                                              status    |-> out.result.status,
                                              model     |-> out.after.ml.model])]
    /\ UNCHANGED <<aggVars, saveVars, matchVars, engineVars, addVars, detectVars,
                   trainerVars, ml_call, ml_alerts, scorer, raceVars, pureVars>>

InitAggregator ==
    /\ current_window = <<>>
    /\ raw_events = <<>>
    /\ aggregated_metrics = <<>>
    /\ agg_pc = "running"
    /\ saved_events = <<>>
    /\ txn = <<>>
    /\ pending = <<>>
    /\ metrics_read = [src_ip |-> "", names |-> {}, during |-> 0]

\* no stand-alone parser in use
InitNoParser ==
    /\ m_input = NoInput
    /\ m_rules = <<>>
    /\ m_matches = <<>>
    /\ m_pc = "idle"

\* an empty store, no engine constructed yet
InitEngines ==
    /\ suricata_rules = {}
    /\ suricata_alerts = <<>>
    /\ parser_rules = [e \in Engines |-> <<>>]
    /\ engine_up = [e \in Engines |-> FALSE]
    /\ last_add = <<>>

InitNoAdd ==
    /\ a_line = OtherLine("blank")
    /\ a_pc = "idle"

InitNoDetect ==
    /\ device_profiles = {}
    /\ alerts = <<>>
    /\ detect_pc = "idle"
    /\ cycle = <<>>

InitNoTrainer ==
    /\ trainer = <<>>
    /\ metrics_history = <<>>
    /\ host_profiles = {}
    /\ t_call = <<>>

InitNoMl ==
    /\ ml_training_data = <<>>
    /\ ml_model_metrics = <<>>
    /\ ml = <<>>
    /\ model_file = <<>>
    /\ ml_call = <<>>

InitNoHybrid ==
    /\ ml_alerts = <<>>
    /\ scorer = <<>>
    /\ hybrid_verdicts = <<>>
    /\ h_call = <<>>
    /\ h_worker = <<>>

InitNoRace ==
    /\ reload = <<>>
    /\ check = <<>>

InitNoPure ==
    fn_call = <<>>

InitNoMore == InitNoHybrid /\ InitNoRace /\ InitNoPure

InitNoLater == InitNoDetect /\ InitNoTrainer /\ InitNoMl /\ InitNoMore

Init ==
    /\ InitAggregator
    /\ InitNoParser
    /\ InitEngines
    /\ InitNoAdd
    /\ InitNoLater

Next ==
    \/ \E event \in Events : ReadEvent(event)
    \/ SkipLine
    \/ FlushAll
    \/ KeyboardInterrupt
    \/ EndOfStream
    \/ Terminate

Spec == Init /\ [][Next]_vars

(***************************************************************************)
(* The flush of a window statement by statement (_save_window opens a      *)
(* connection, executes five INSERTs and commits once), next to a cycle    *)
(* worker that reads aggregated_metrics over a connection of its own.      *)
(***************************************************************************)
\* a reader that would see the uncommitted rows of another connection
Visible_dirty(committed, uncommitted) == committed \o uncommitted

\* what a SELECT on another connection sees: the committed rows only
Visible(committed, uncommitted) == committed

\* process_event up to the point where windows_to_flush is known
BeginEvent(event) ==
    /\ agg_pc = "running"
    /\ pending = <<>>
    /\ Len(raw_events) < MaxSaveEvents
    /\ raw_events' = Append(raw_events, event)
    /\ current_window' = Accumulate(current_window, event, Len(raw_events) + 1)
    /\ LET old(wd) == IsOld(wd, event.timestamp)
       IN  pending' = SelectSeq(current_window', old)
    /\ UNCHANGED <<aggregated_metrics, agg_pc, saved_events, txn, metrics_read, restVars>>

\* one cursor.execute(INSERT ...) of the loop over the five metrics
InsertRow ==
    /\ agg_pc = "running"
    /\ pending # <<>>
    /\ Len(txn) < 5
    /\ txn' = Append(txn, MetricRow(Head(pending), Len(txn) + 1))
    /\ UNCHANGED <<aggVars, pending, metrics_read, restVars>>

\* conn.commit(), then del self.current_window[key]
Commit ==
    /\ agg_pc = "running"
    /\ pending # <<>>
    /\ Len(txn) = 5
    /\ aggregated_metrics' = aggregated_metrics \o txn
    /\ saved_events' = Append(saved_events, Head(pending).events)
    /\ txn' = <<>>
    /\ LET keep(wd) == KeyOf(wd) # KeyOf(Head(pending))
       IN  current_window' = SelectSeq(current_window, keep)
    /\ pending' = Tail(pending)
    /\ UNCHANGED <<raw_events, agg_pc, metrics_read, restVars>>

\* an sqlite3 error raised by connect, execute or commit: the exception leaves
\* _save_window and run_aggregator, the connection is dropped uncommitted
StoreError ==
    /\ agg_pc = "running"
    /\ pending # <<>>
    /\ txn' = <<>>
    /\ agg_pc' = "crashed"
    /\ UNCHANGED <<current_window, raw_events, aggregated_metrics, saved_events,
                   pending, metrics_read, restVars>>

\* run_scoring_cycle: the metric rows of a host at its latest timestamp
LatestMetricRows(rows, src_ip) ==
    LET mine == {i \in DOMAIN rows : rows[i].src_ip = src_ip}
    IN  {i \in mine : \A j \in mine : rows[j].timestamp <= rows[i].timestamp}

ReadMetrics(src_ip) ==
    /\ LET rows == Visible(aggregated_metrics, txn)
       IN  metrics_read' =
               [src_ip |-> src_ip,
                names  |-> {rows[i].metric_name : i \in LatestMetricRows(rows, src_ip)},
                during |-> Len(txn)]
    /\ UNCHANGED <<aggVars, txn, pending, restVars>>

NextSave ==
    \/ \E event \in Events : BeginEvent(event)
    \/ InsertRow
    \/ Commit
    \/ StoreError
    \/ \E src_ip \in SrcIps : ReadMetrics(src_ip)

SpecSave == Init /\ [][NextSave]_vars

\* C4: a read of the cycle worker sees none or all five metric rows of a
\* window, never a proper non-empty subset, and the committed table never
\* holds some of the five rows of a flush without the others (also after a
\* flush that failed midway).
C4_WindowRowsAtomic ==
    /\ metrics_read.names \in {{}, Range(MetricNames)}
    /\ \A i \in DOMAIN aggregated_metrics :
          LET same(name) ==
                  {j \in DOMAIN aggregated_metrics :
                      /\ aggregated_metrics[j].src_ip = aggregated_metrics[i].src_ip
                      /\ aggregated_metrics[j].window_start = aggregated_metrics[i].window_start
                      /\ aggregated_metrics[j].metric_name = name}
          IN  \A name \in Range(MetricNames) :
                  Cardinality(same(name)) = Cardinality(same("connections_count"))

\* the cycle worker read a host while some, not all, rows of its window were
\* inserted, and saw none of them
C4_Witness ==
    /\ metrics_read.during \in 1..4
    /\ metrics_read.names = {}
    /\ pending # <<>>
    /\ metrics_read.src_ip = Head(pending).src_ip

(***************************************************************************)
(* One add_rule call of the administrator's engine, which was started on   *)
(* an empty store; the rule line ranges over option lists with and without *)
(* sid and msg.                                                            *)
(***************************************************************************)
SidOptions ==
    {<<>>, <<Sid(9001)>>, <<U("sid", <<"0">>)>>, <<U("sid", <<"-", "5">>)>>,
     <<U("sid", <<"1", "2", "a", "b">>)>>, <<Q("sid", <<"5">>)>>}

MsgOptions ==
    {<<>>, <<Q("msg", <<"text">>)>>, <<U("msg", <<"text">>)>>, <<Q("msg", <<>>)>>}

AddInputs ==
    {[Line("alert", "tcp", any, any, "->", any, NatText(port), msg \o sid \o more)
         EXCEPT !.pad = pad] :
        port \in {22, 3389}, msg \in MsgOptions, sid \in SidOptions,
        more \in {<<>>, <<U("rev", <<"1">>)>>}, pad \in BOOLEAN}
    \cup {OtherLine("blank"), OtherLine("comment"), OtherLine("garbage")}

\* the store and the rule list of an engine started on an empty store
StartedOnEmpty == load_default_rules([rows |-> {}, rules |-> <<>>])

InitAdd ==
    /\ InitAggregator
    /\ InitNoParser
    /\ suricata_rules = StartedOnEmpty.rows
    /\ suricata_alerts = <<>>
    /\ parser_rules = [e \in Engines |-> IF e \in Admins THEN StartedOnEmpty.rules ELSE <<>>]
    /\ engine_up = [e \in Engines |-> e \in Admins]
    /\ last_add = <<>>
    /\ a_line \in AddInputs
    /\ InitNoLater
    /\ a_pc = "start"

AddLine ==
    /\ a_pc = "start"
    /\ \E e \in Admins :
          LET st == add_rule(StoreOf(e), a_line, "custom")
          IN  /\ suricata_rules' = st.rows
              /\ parser_rules' = [parser_rules EXCEPT ![e] = st.rules]
    /\ last_add' = NoteAdd(last_add, a_line)
    /\ a_pc' = "added"
    /\ UNCHANGED <<aggVars, saveVars, matchVars, laterVars, suricata_alerts, engine_up,
                   a_line>>

NextAdd == AddLine

SpecAdd == InitAdd /\ [][NextAdd]_vars


(***************************************************************************)
(* The detector over a table the aggregator has filled: per host a run of  *)
(* windows of level 1, one of which may be of level 2.                     *)
(***************************************************************************)
HistoryLengths == {1, 3, 10, 17, 26}

Histories ==
    {[n |-> 0, odd |-> 0]}
    \cup UNION {{[n |-> n, odd |-> k] : k \in {0, 1, n}} : n \in HistoryLengths}

\* the windows of a history, the level-2 window being the one numbered odd
HistoryRows(src_ip, h) ==
    SaveAll([k \in 1..h.n |-> DetectWindow(src_ip, k - 1, IF k = h.odd THEN 2 ELSE 1)])

InitDetect ==
    /\ current_window = <<>>
    /\ raw_events = <<>>
    /\ \E h1 \in Histories, h2 \in {h \in Histories : h.n \in {0, 3} \/ (h.n = 10 /\ h.odd = 10)} :
          aggregated_metrics = HistoryRows("10.0.0.1", h1) \o HistoryRows("10.0.0.2", h2)
    /\ agg_pc = "running"
    /\ saved_events = <<>>
    /\ txn = <<>>
    /\ pending = <<>>
    /\ metrics_read = [src_ip |-> "", names |-> {}, during |-> 0]
    /\ InitNoParser
    /\ InitEngines
    /\ InitNoAdd
    /\ device_profiles = {}
    /\ alerts = <<>>
    /\ detect_pc = "running"
    /\ cycle = <<>>
    /\ InitNoTrainer
    /\ InitNoMl
    /\ InitNoMore

NextDetect ==
    \/ RunDetection
    \/ \E level \in {1, 2} : StoreWindow("10.0.0.1", level)

SpecDetect == InitDetect /\ [][NextDetect]_vars


(***************************************************************************)
(* A trainer built with a small learning window, called by the hybrid      *)
(* pipeline and the web interface; and a trainer built with the defaults   *)
(* that is fed normal samples of one host.                                 *)
(***************************************************************************)
SmallTrainer == [learning_window |-> 2, sliding_window_size |-> 3]

\* the levels of the samples given as normal, and of those flagged anomalous
NormalLevels == {1, 2}
AnomalousLevel == 9

InitTrainer ==
    /\ InitAggregator
    /\ InitNoParser
    /\ InitEngines
    /\ InitNoAdd
    /\ InitNoDetect
    /\ InitNoMl
    /\ trainer = SmallTrainer
    /\ metrics_history = <<>>
    /\ host_profiles = {}
    /\ t_call = <<>>
    /\ InitNoMore

NextTrainer ==
    \/ \E level \in NormalLevels : add_metrics_sample("10.0.0.1", SampleOf(level), FALSE)
    \/ add_metrics_sample("10.0.0.1", SampleOf(AnomalousLevel), TRUE)
    \/ \E enabled \in BOOLEAN : set_learning_mode("10.0.0.1", enabled)
    \/ reset_profile("10.0.0.1")

SpecTrainer == InitTrainer /\ [][NextTrainer]_vars

InitLearn ==
    /\ InitAggregator
    /\ InitNoParser
    /\ InitEngines
    /\ InitNoAdd
    /\ InitNoDetect
    /\ InitNoMl
    /\ trainer = DefaultTrainer
    /\ metrics_history = <<>>
    /\ host_profiles = {}
    /\ t_call = <<>>
    /\ InitNoMore

NextLearn == AddNormalSample

SpecLearn == InitLearn /\ [][NextLearn]_vars

(***************************************************************************)
(* A detector started on a database whose training table already holds     *)
(* samples ingested by the cycle worker, next to windows of one host the   *)
(* aggregator has stored and nobody has collected yet.                     *)
(***************************************************************************)
TrainingSizes == {min_training_samples - 2, min_training_samples - 1, min_training_samples}

\* rows collect_training_data has inserted for another host
Ingested(n) ==
    [i \in 1..n |-> TrainingRow("10.0.0.2", (1000 + i) * Resolution, SampleOf(1), None)]

\* the times of the collect_training_data calls: half a second into the second
\* window of the host, and long after
MlTimes == {window_seconds * Resolution + 1, 2000 * Resolution}

InitMl ==
    /\ current_window = <<>>
    /\ raw_events = <<>>
    /\ \E k \in 0..2 : aggregated_metrics = HistoryRows("10.0.0.1", [n |-> k, odd |-> 0])
    /\ agg_pc = "running"
    /\ saved_events = <<>>
    /\ txn = <<>>
    /\ pending = <<>>
    /\ metrics_read = [src_ip |-> "", names |-> {}, during |-> 0]
    /\ InitNoParser
    /\ InitEngines
    /\ InitNoAdd
    /\ InitNoDetect
    /\ InitNoTrainer
    /\ \E n \in TrainingSizes : ml_training_data = Ingested(n)
    /\ ml_model_metrics = <<>>
    /\ ml = NewDetector
    /\ model_file = NoModelFile
    /\ ml_call = <<>>
    /\ InitNoMore

\* the aggregator stores the next window of the host
StoreNextWindow(src_ip) ==
    /\ Cardinality(WindowsOfHost(aggregated_metrics, src_ip)) < MaxMlWindows
    /\ aggregated_metrics' = aggregated_metrics \o
           _save_window(DetectWindow(src_ip,
                                     Cardinality(WindowsOfHost(aggregated_metrics, src_ip)),
                                     1))
    /\ UNCHANGED <<current_window, raw_events, agg_pc, saved_events, saveVars, restVars>>

NextMl ==
    \/ StoreNextWindow("10.0.0.1")
    \/ \E force \in BOOLEAN : train(force)
    \/ auto_train_ml
    \/ \E timestamp \in MlTimes : collect_training_data("10.0.0.1", SampleOf(2), timestamp)
    \/ NewMLAnomalyDetector

SpecMl == InitMl /\ [][NextMl]_vars

(***************************************************************************)
(* run_ml_detector on the same database: a cycle of the ML detector        *)
(* between two windows the aggregator stores.                              *)
(***************************************************************************)
NextMlDetect ==
    \/ StoreNextWindow("10.0.0.1")
    \/ MlRunDetection

SpecMlDetect == InitMl /\ [][NextMlDetect]_vars

(***************************************************************************)
(* One scoring cycle of a HybridScorer, over the scorers that can be       *)
(* built (each component present or not, the model trained or not), the    *)
(* histories of one host and the alerts the engine has stored for it.      *)
(***************************************************************************)
\* an alert of the engine for the host, of the given time and severity
StoredAlert(timestamp, severity) ==
    [timestamp |-> timestamp, sid |-> 9001, src_ip |-> "10.0.0.1", src_port |-> 40000,
     dst_ip |-> "127.0.0.1", dst_port |-> 3389, protocol |-> "TCP", action |-> "alert",
     msg |-> "m", severity |-> severity]

\* n alerts one tick apart from base on, the oldest of severity first
Burst(base, n, first, rest) ==
    [i \in 1..n |-> StoredAlert(base + i, IF i = 1 THEN first ELSE rest)]

Bursts == {[n |-> 0, first |-> "medium", rest |-> "medium"],
           [n |-> 1, first |-> "medium", rest |-> "medium"],
           [n |-> 3, first |-> "high", rest |-> "medium"],
           [n |-> 5, first |-> "critical", rest |-> "critical"],
           [n |-> AlertLimit + 1, first |-> "critical", rest |-> "medium"]}

ScoredHistories == {[n |-> 1, odd |-> 0], [n |-> 3, odd |-> 3],
                    [n |-> 10, odd |-> 10], [n |-> 17, odd |-> 17]}

\* the values given to the logistic expressions
RichGrid == [below |-> {Frac(1, 4)}, above |-> {Frac(6499, 10000), One},
             ml |-> {Frac(1, 4), Frac(1, 2), One}]

\* a detector that has trained on the samples ingested so far
TrainedOn(n) ==
    (CHOOSE out \in train_outcomes([ml_training_data |-> Ingested(n),
                                    ml_model_metrics |-> <<>>,
                                    ml |-> NewDetector,
                                    model_file |-> NoModelFile], <<>>, FALSE, 0) : TRUE).after

NotTrainedOn(n) ==
    [ml_training_data |-> Ingested(n), ml_model_metrics |-> <<>>,
     ml |-> NewDetector, model_file |-> NoModelFile]

InitScorer(states, histories, bursts) ==
    /\ current_window = <<>>
    /\ raw_events = <<>>
    /\ \E h \in histories : aggregated_metrics = HistoryRows("10.0.0.1", h)
    /\ agg_pc = "running"
    /\ saved_events = <<>>
    /\ txn = <<>>
    /\ pending = <<>>
    /\ metrics_read = [src_ip |-> "", names |-> {}, during |-> 0]
    /\ InitNoParser
    /\ suricata_rules = {}
    /\ \E b \in bursts, old \in BOOLEAN :
          suricata_alerts =
              Burst(IF old THEN 0 ELSE NowAfter(aggregated_metrics) - 30 * Resolution,
                    b.n, b.first, b.rest)
    /\ parser_rules = [e \in Engines |-> <<>>]
    /\ engine_up = [e \in Engines |-> FALSE]
    /\ last_add = <<>>
    /\ InitNoAdd
    /\ InitNoDetect
    /\ InitNoTrainer
    /\ scorer \in [suricata_engine : BOOLEAN, anomaly_detector : BOOLEAN,
                   ml_detector : BOOLEAN]
    /\ \E st \in states :
          /\ ml_training_data = st.ml_training_data
          /\ ml_model_metrics = st.ml_model_metrics
          /\ ml = st.ml
          /\ model_file = st.model_file
    /\ ml_call = <<>>
    /\ ml_alerts = <<>>
    /\ hybrid_verdicts = <<>>
    /\ h_call = <<>>
    /\ h_worker = [cycle |-> 0, attempts |-> <<>>]
    /\ InitNoRace
    /\ InitNoPure

InitScore ==
    InitScorer({NotTrainedOn(0), TrainedOn(min_training_samples)}, ScoredHistories, Bursts)

NextScore == HybridCycle(RichGrid, MaxScoreCycles)

SpecScore == InitScore /\ [][NextScore]_vars

(***************************************************************************)
(* run_hybrid_scorer over a dozen cycles, on a database whose training     *)
(* table is short of, or at, the number of samples train() asks for, while *)
(* the aggregator stores further windows of the host.                      *)
(***************************************************************************)
WorkerSizes == {min_training_samples - 12, min_training_samples - 2, min_training_samples}

ThinGrid == [below |-> {Frac(1, 4)}, above |-> {One}, ml |-> {One}]

InitWorker ==
    /\ InitScorer({NotTrainedOn(n) : n \in WorkerSizes}, {[n |-> 1, odd |-> 0]},
                  {b \in Bursts : b.n <= 1})
    /\ scorer.suricata_engine
    /\ scorer.anomaly_detector

NextWorker ==
    \/ HybridCycle(ThinGrid, MaxWorkerCycles)
    \/ StoreNextWindow("10.0.0.1")

SpecWorker == InitWorker /\ [][NextWorker]_vars

(***************************************************************************)
(* Two requests of the web interface at once on its one engine: a rule     *)
(* change (add_rule, delete_rule or toggle_rule, each of which ends in     *)
(* _load_rules_from_db) and a check_packet.  Flask serves each request on  *)
(* a thread of its own and the engine holds no lock, so the statements of  *)
(* the two threads interleave; parser.rules is one list object that the    *)
(* reload empties and refills in place while match_packet iterates it.     *)
(***************************************************************************)
RaceEngine == "web"

RaceChanges == {[op |-> "delete", sid |-> 1000001, enabled |-> FALSE],
                [op |-> "toggle", sid |-> 1000007, enabled |-> FALSE],
                [op |-> "add", sid |-> 9001, enabled |-> TRUE]}

RacePackets == {pkt \in Packets : pkt.src_ip # <<>>}

\* the statements of add_rule, delete_rule and toggle_rule up to conn.commit()
ChangeStore(change) ==
    /\ reload.pc = "idle"
    /\ LET rows ==
               CASE change.op = "delete" -> {r \in suricata_rules : r.sid # change.sid}
                 [] change.op = "toggle" ->
                        {IF r.sid = change.sid THEN [r EXCEPT !.enabled = change.enabled]
                         ELSE r : r \in suricata_rules}
                 [] change.op = "add" ->
                        InsertOrReplace(suricata_rules,
                                        RuleRow(parse_rule(strip(Rule9001_3389)), "custom"))
       IN  /\ change.op \in {"delete", "toggle"} =>
                  \E r \in suricata_rules : r.sid = change.sid
           /\ suricata_rules' = rows
           /\ reload' = [pc |-> "select", rows |-> <<>>,
                         before |-> parser_rules[RaceEngine],
                         after  |-> _load_rules_from_db(rows)]
    /\ UNCHANGED <<aggVars, saveVars, matchVars, addVars, detectVars, trainerVars, mlVars,
                   hybridVars, suricata_alerts, parser_rules, engine_up, last_add, check, pureVars>>

\* cursor.execute('SELECT raw_rule, enabled FROM suricata_rules'); rows = cursor.fetchall()
SelectRows ==
    /\ reload.pc = "select"
    /\ reload' = [reload EXCEPT !.pc = "clear", !.rows = RowsBySid(suricata_rules)]
    /\ UNCHANGED <<aggVars, saveVars, matchVars, engineVars, addVars, detectVars,
                   trainerVars, mlVars, hybridVars, check, pureVars>>

\* self.parser.rules.clear()
ClearRules ==
    /\ reload.pc = "clear"
    /\ parser_rules' = [parser_rules EXCEPT ![RaceEngine] = <<>>]
    /\ reload' = [reload EXCEPT !.pc = IF reload.rows = <<>> THEN "done" ELSE "append"]
    /\ UNCHANGED <<aggVars, saveVars, matchVars, addVars, detectVars, trainerVars, mlVars,
                   hybridVars, suricata_rules, suricata_alerts, engine_up, last_add, check, pureVars>>

\* one turn of the loop over rows: parse the row and append the rule
AppendRule ==
    /\ reload.pc = "append"
    /\ LET row  == Head(reload.rows)
           rule == parse_rule(row.raw_rule)
       IN  parser_rules' =
               IF row.enabled /\ rule # NoRule
               THEN [parser_rules EXCEPT ![RaceEngine] = Append(@, rule)]
               ELSE parser_rules
    /\ reload' = [reload EXCEPT !.rows = Tail(@),
                                !.pc = IF Tail(reload.rows) = <<>> THEN "done" ELSE "append"]
    /\ UNCHANGED <<aggVars, saveVars, matchVars, addVars, detectVars, trainerVars, mlVars,
                   hybridVars, suricata_rules, suricata_alerts, engine_up, last_add, check, pureVars>>

\* check_packet enters match_packet: matches = [], the for loop takes an
\* iterator of self.rules
BeginMatch(packet_event) ==
    /\ check.pc = "idle"
    /\ check' = [pc |-> "iterating", packet_event |-> packet_event, index |-> 0,
                 matches |-> <<>>, seen |-> <<>>]
    /\ UNCHANGED <<aggVars, saveVars, matchVars, engineVars, addVars, detectVars,
                   trainerVars, mlVars, hybridVars, reload, pureVars>>

\* one turn of for rule in self.rules: the iterator hands out the element at
\* its index of the list as it is now
NextRule ==
    /\ check.pc = "iterating"
    /\ check.index < Len(parser_rules[RaceEngine])
    /\ LET rule == parser_rules[RaceEngine][check.index + 1]
       IN  check' = [check EXCEPT !.index = @ + 1,
                                  !.seen = Append(@, rule),
                                  !.matches = IF RuleMatches(rule, check.packet_event)
                                              THEN Append(@, rule) ELSE @]
    /\ UNCHANGED <<aggVars, saveVars, matchVars, engineVars, addVars, detectVars,
                   trainerVars, mlVars, hybridVars, reload, pureVars>>

\* the iterator finds its index at the end of the list: match_packet returns
\* and check_packet saves an alert per match
EndMatch ==
    /\ check.pc = "iterating"
    /\ check.index >= Len(parser_rules[RaceEngine])
    /\ suricata_alerts' = suricata_alerts \o
           [i \in DOMAIN check.matches |-> AlertOf(check.matches[i], check.packet_event)]
    /\ check' = [check EXCEPT !.pc = "done"]
    /\ UNCHANGED <<aggVars, saveVars, matchVars, addVars, detectVars, trainerVars, mlVars,
                   hybridVars, suricata_rules, parser_rules, engine_up, last_add, reload, pureVars>>

InitRace ==
    /\ InitAggregator
    /\ InitNoParser
    /\ suricata_rules = StartedOnEmpty.rows
    /\ suricata_alerts = <<>>
    /\ parser_rules = [e \in Engines |-> IF e = RaceEngine THEN StartedOnEmpty.rules ELSE <<>>]
    /\ engine_up = [e \in Engines |-> e = RaceEngine]
    /\ last_add = <<>>
    /\ InitNoAdd
    /\ InitNoDetect
    /\ InitNoTrainer
    /\ InitNoMl
    /\ InitNoHybrid
    /\ reload = [pc |-> "idle", rows |-> <<>>, before |-> StartedOnEmpty.rules,
                 after |-> StartedOnEmpty.rules]
    /\ check = [pc |-> "idle", packet_event |-> <<>>, index |-> 0, matches |-> <<>>,
                seen |-> <<>>]
    /\ InitNoPure

NextRace ==
    \/ \E change \in RaceChanges : ChangeStore(change)
    \/ SelectRows
    \/ ClearRules
    \/ AppendRule
    \/ \E packet_event \in RacePackets : BeginMatch(packet_event)
    \/ NextRule
    \/ EndMatch

SpecRace == InitRace /\ [][NextRace]_vars

(***************************************************************************)
(* Functions of the program applied to arguments drawn at the start: every *)
(* process is idle, the store holds the given windows, and fn_call holds   *)
(* the arguments until the function is applied and then also its value.    *)
(***************************************************************************)
\* the store with the given rows in aggregated_metrics and nothing running
InitIdle(rows) ==
    /\ current_window = <<>>
    /\ raw_events = <<>>
    /\ aggregated_metrics = rows
    /\ agg_pc = "running"
    /\ saved_events = <<>>
    /\ txn = <<>>
    /\ pending = <<>>
    /\ metrics_read = [src_ip |-> "", names |-> {}, during |-> 0]
    /\ InitNoParser
    /\ InitEngines
    /\ InitNoAdd
    /\ InitNoDetect
    /\ InitNoTrainer
    /\ InitNoMl
    /\ InitNoHybrid
    /\ InitNoRace

Given(op, args) == [op |-> op, args |-> args, applied |-> FALSE, value |-> <<>>]

\* the call of fn_call returns value
Return(value) ==
    /\ fn_call' = [fn_call EXCEPT !.applied = TRUE, !.value = value]
    /\ UNCHANGED <<aggVars, saveVars, matchVars, engineVars, addVars, detectVars,
                   trainerVars, mlVars, hybridVars, raceVars>>

(***************************************************************************)
(* The statistical score of a host as the hybrid scorer and as the ML      *)
(* detector compute it.  A score is the literal 0.0 or the value of        *)
(* 1 / (1 + exp(-(max_z - z_threshold))), which is kept as the square of   *)
(* its max_z: the expression is increasing in max_z and never 0.0 for      *)
(* max_z >= 0.                                                             *)
(***************************************************************************)
NoScore == [logistic |-> FALSE, max_z2 |-> Zero]

LogisticOf(zs) ==
    [logistic |-> TRUE, max_z2 |-> CHOOSE z \in zs : \A y \in zs : FGeq(z, y)]

\* HybridScorer._get_stat_score with an anomaly detector: 0.0 if no feature
\* has three values and a std that is not zero
hybrid_stat_score(rows, src_ip, metrics) ==
    LET zs == ZScores2(rows, src_ip, metrics)
    IN  IF zs = {} THEN NoScore ELSE LogisticOf(zs)

\* MLAnomalyDetector._get_stat_score: a feature with fewer than three values,
\* or with std 0, enters z_scores as 0.0
ml_stat_score(rows, src_ip, metrics) ==
    LogisticOf({LET st == calculate_statistics(rows, src_ip, name)
                    current_value == IF name \in DOMAIN metrics THEN metrics[name] ELSE Zero
                IN  IF st.count < 3 THEN Zero
                    ELSE calculate_z_score2(current_value, st.mean, st.std2) :
                   name \in Range(FEATURE_NAMES)})

StatLevels == {1, 2}

InitStatScore ==
    /\ \E h \in Histories \cup {[n |-> 2, odd |-> 0]} :
          InitIdle(HistoryRows("10.0.0.1", h))
    /\ \E src_ip \in SrcIps, level \in StatLevels :
          fn_call = Given("_get_stat_score", [src_ip |-> src_ip, metrics |-> SampleOf(level)])

GetStatScores ==
    /\ ~fn_call.applied
    /\ Return([hybrid |-> hybrid_stat_score(aggregated_metrics, fn_call.args.src_ip,
                                            fn_call.args.metrics),
               ml     |-> ml_stat_score(aggregated_metrics, fn_call.args.src_ip,
                                        fn_call.args.metrics)])

NextStatScore == GetStatScores

SpecStatScore == InitStatScore /\ [][NextStatScore]_vars

(***************************************************************************)
(* get_window_key on the timestamps of two windows on either side of the   *)
(* epoch, in ticks.                                                        *)
(***************************************************************************)
KeyTimestamps ==
    (-(2 * window_seconds * Resolution)) .. (2 * window_seconds * Resolution)

InitWindowKey ==
    /\ InitIdle(<<>>)
    /\ \E timestamp \in KeyTimestamps :
          fn_call = Given("get_window_key", [timestamp |-> timestamp])

GetWindowKey ==
    /\ ~fn_call.applied
    /\ Return(get_window_key(fn_call.args.timestamp))

NextWindowKey == GetWindowKey

SpecWindowKey == InitWindowKey /\ [][NextWindowKey]_vars

(***************************************************************************)
(* parse_rule on a rule line, and the rule the engine gets back when the   *)
(* line has gone through add_rule on an empty store and the reload that    *)
(* add_rule ends with.                                                     *)
(***************************************************************************)
InitReparse ==
    /\ InitIdle(<<>>)
    /\ \E rule_text \in AddInputs :
          fn_call = Given("parse_rule", [rule_text |-> rule_text])

Reparse ==
    /\ ~fn_call.applied
    /\ Return([parsed   |-> parse_rule(fn_call.args.rule_text),
               reloaded |-> add_rule([rows |-> {}, rules |-> <<>>],
                                     fn_call.args.rule_text, "custom").rules])

NextReparse == Reparse

SpecReparse == InitReparse /\ [][NextReparse]_vars

(***************************************************************************)
(* check_metric on a metric of a host with a stored history and a current  *)
(* value given from outside.                                               *)
(***************************************************************************)
CurrentValues == {Whole(0), Whole(1), Whole(2), Whole(40), Whole(160)}

InitCheckMetric ==
    /\ \E h \in {g \in Histories : g.n <= 17} : InitIdle(HistoryRows("10.0.0.1", h))
    /\ \E metric_name \in Range(MetricNames), current_value \in CurrentValues :
          fn_call = Given("check_metric", [src_ip |-> "10.0.0.1",
                                           metric_name |-> metric_name,
                                           current_value |-> current_value])

CheckMetric ==
    /\ ~fn_call.applied
    /\ LET a  == fn_call.args
           st == calculate_statistics(aggregated_metrics, a.src_ip, a.metric_name)
       IN  Return([stats   |-> st,
                   z_score2 |-> calculate_z_score2(a.current_value, st.mean, st.std2),
                   alert   |-> check_metric(aggregated_metrics, a.src_ip, a.metric_name,
                                            a.current_value)])

NextCheckMetric == CheckMetric

SpecCheckMetric == InitCheckMetric /\ [][NextCheckMetric]_vars

NextRules ==
    \/ \E e \in Engines : StartEngine(e)
    \/ \E e \in Admins, rule_text \in RuleLines : AddRule(e, rule_text)
    \/ \E e \in Admins, lines \in LineSeqs : AddRulesFromText(e, lines)
    \/ \E e \in Admins, sid \in AdminSids : DeleteRule(e, sid)
    \/ \E e \in Admins, sid \in AdminSids, enabled \in BOOLEAN : ToggleRule(e, sid, enabled)
    \/ \E e \in Engines, packet_event \in Packets : CheckPacket(e, packet_event)

SpecRules == Init /\ [][NextRules]_vars

(***************************************************************************)
(* The administrator's engine alone on its store: started on an empty      *)
(* store, then any sequence of rule operations, some of them on a sid the  *)
(* store does not hold or with a line that is no rule.                     *)
(***************************************************************************)
EngineSids == {9001, 1000001, 1000002, 1000007, 4242}

InitEngine ==
    /\ InitAggregator
    /\ InitNoParser
    /\ suricata_rules = StartedOnEmpty.rows
    /\ suricata_alerts = <<>>
    /\ parser_rules = [e \in Engines |-> IF e \in Admins THEN StartedOnEmpty.rules ELSE <<>>]
    /\ engine_up = [e \in Engines |-> e \in Admins]
    /\ last_add = <<>>
    /\ InitNoAdd
    /\ InitNoLater

NextEngine ==
    \/ \E e \in Admins, rule_text \in RuleLines \cup {OtherLine("garbage")} :
          AddRule(e, rule_text)
    \/ \E e \in Admins, lines \in LineSeqs : AddRulesFromText(e, lines)
    \/ \E e \in Admins, sid \in EngineSids : DeleteRule(e, sid)
    \/ \E e \in Admins, sid \in EngineSids, enabled \in BOOLEAN : ToggleRule(e, sid, enabled)

SpecEngine == InitEngine /\ [][NextEngine]_vars

InitMatch ==
    /\ InitAggregator
    /\ InitEngines
    /\ InitNoAdd
    /\ InitNoLater
    /\ m_input \in MatchInputs
    /\ m_rules = <<>>
    /\ m_matches = <<>>
    /\ m_pc = "start"

NextMatch ==
    \/ LoadRule
    \/ MatchPacket

SpecMatch == InitMatch /\ [][NextMatch]_vars

(***************************************************************************)
(* Properties of the rule matcher                                          *)
(***************************************************************************)
\* what a port selector of the rule syntax selects
Selects(sel, port) ==
    CASE sel.kind = "any"           -> TRUE
      [] sel.kind = "literal"       -> port # None /\ port = sel.lo
      [] sel.kind = "list"          -> port # None /\ port \in {sel.lo, sel.hi}
      [] OTHER                      -> port # None /\ sel.lo <= port /\ port <= sel.hi

IsCidr(rule_ip) == Contains(rule_ip, "/") /\ IsNetwork(rule_ip)

\* C12: for an address selector a.b.c.d/n and any packet address text p,
\* _match_ip is true iff p is a valid IPv4 address whose first n bits are
\* those of a.b.c.d; text prefixes never decide.
C12_CidrByPrefixArithmetic ==
    ( m_pc = "matched" /\ IsCidr(m_input.rule_src_ip) )
    => ( _match_ip(m_input.rule_src_ip, m_input.src_ip)
         <=> ( IsIPv4(m_input.src_ip) /\ InNetwork(m_input.src_ip, m_input.rule_src_ip) ) )

(***************************************************************************)
(* Properties of the rule engine                                           *)
(***************************************************************************)
\* C11: no alert is emitted and persisted for a packet event whose src_ip is
\* empty or missing, whatever rules are loaded.
C11_NoAlertForMalformedPacket ==
    \A i \in DOMAIN suricata_alerts : suricata_alerts[i].src_ip # <<>>

NewAlerts == SubSeq(suricata_alerts', Len(suricata_alerts) + 1, Len(suricata_alerts'))

\* C7: each signature alert that is persisted carries the sid of a rule that
\* exists in the store and is enabled at the moment the alert is emitted.
C7_AlertOfEnabledRule ==
    [][\A i \in DOMAIN NewAlerts :
          \E row \in suricata_rules : row.sid = NewAlerts[i].sid /\ row.enabled]_vars

\* C8: once rule 9001 with dst_port 3389 has been inserted into the store
\* while the pipeline is running (its engine was built before, so its rule
\* list does not hold the rule), the next TCP packet to port 3389 that the
\* pipeline checks produces a persisted alert with sid 9001, severity critical.
C8_HotReload ==
    [][\A packet_event \in Packets :
          ( /\ CheckPacket("ids", packet_event)
            /\ packet_event.dst_port = 3389
            /\ lower(packet_event.protocol) = "tcp"
            /\ \E row \in suricata_rules :
                  row.sid = 9001 /\ row.enabled /\ row.raw_rule = Rule9001_3389
            /\ \A i \in DOMAIN parser_rules["ids"] : parser_rules["ids"][i].sid # 9001 )
          => \E i \in DOMAIN NewAlerts :
                 NewAlerts[i].sid = 9001 /\ NewAlerts[i].severity = "critical"]_vars

OnePerSid(rules) == \A i, j \in DOMAIN rules : rules[i].sid = rules[j].sid => i = j

\* C9: the store and every in-memory rule list hold at most one rule per sid,
\* and the rule the store holds for an added sid is the one of the most recent
\* add, which the rule list of the adding engine holds while it is enabled.
C9_OneRulePerSid ==
    /\ \A r, q \in suricata_rules : r.sid = q.sid => r = q
    /\ \A e \in Engines : OnePerSid(parser_rules[e])
    /\ \A sid \in DOMAIN last_add :
          \E row \in suricata_rules :
              /\ row.sid = sid
              /\ row.raw_rule = strip(last_add[sid])
              /\ row.enabled =>
                    \A e \in Admins :
                        \E i \in DOMAIN parser_rules[e] :
                            parser_rules[e][i] = parse_rule(last_add[sid])

\* sid 9001 was added twice: the store holds the later rule (port 22), the
\* pipeline's engine still holds the earlier one (port 3389)
C9_Witness ==
    /\ \E row \in suricata_rules : row.sid = 9001 /\ row.raw_rule = Rule9001_22
    /\ \E i \in DOMAIN parser_rules["ids"] : parser_rules["ids"][i].raw_rule = Rule9001_3389
    /\ \E i \in DOMAIN parser_rules["web"] : parser_rules["web"][i].raw_rule = Rule9001_22

HasOption(line, key) == \E i \in DOMAIN line.options : line.options[i].key = key

\* the text of the sid option is a positive integer
HasPositiveSid(line) ==
    \E i \in DOMAIN line.options :
        /\ line.options[i].key = "sid"
        /\ ~line.options[i].quoted
        /\ isdigit(line.options[i].value)
        /\ DigitsValue(line.options[i].value) > 0

\* C10: a rule line without sid option, without msg option, or whose sid is
\* not a positive integer is rejected: parse_rule returns no rule, and
\* add_rule leaves the store and the in-memory rule list unchanged.
C10_MalformedRuleRejected ==
    ( /\ a_pc = "added"
      /\ a_line.form = "rule"
      /\ ~HasOption(a_line, "sid") \/ ~HasOption(a_line, "msg") \/ ~HasPositiveSid(a_line) )
    => /\ parse_rule(a_line) = NoRule
       /\ suricata_rules = StartedOnEmpty.rows
       /\ \A e \in Admins : parser_rules[e] = StartedOnEmpty.rules

(***************************************************************************)
(* Properties of the stat detector                                         *)
(***************************************************************************)
\* the square of MIN_STD = 0.01
MinStd2 == Frac(1, 10000)

\* the square of z = |current - mean| / std over the history the cycle read,
\* std being floored at MIN_STD
SpecZ2(rows, src_ip, metric, current) ==
    LET st == calculate_statistics(rows, src_ip, metric)
        floored == IF FGeq(st.std2, MinStd2) THEN st.std2 ELSE MinStd2
    IN  FMul(FSquare(FSub(current, st.mean)), [num |-> floored.den, den |-> floored.num])

SpecSeverity(z2) ==
    CASE FGeq(z2, Whole(25)) -> "critical"
      [] ~FGeq(z2, Whole(25)) /\ FGeq(z2, Whole(16)) -> "high"
      [] ~FGeq(z2, Whole(16)) /\ FGeq(z2, Whole(9)) -> "medium"
      [] OTHER -> "low"

AlertsOn(c, metric) ==
    {i \in DOMAIN c.emitted : c.emitted[i].anomaly_type = metric}

\* C13: for each analysed host window and each of the five metrics, a
\* StatAlert is emitted iff the history holds at least 3 samples and
\* z = |current - mean| / std >= 3 (population std floored at MIN_STD), with
\* severity critical for z >= 5, high for z >= 4, medium for z >= 3.
C13_StatAlertIff ==
    \A k \in DOMAIN cycle : \A src_ip \in cycle[k].analysed : \A m \in Range(MetricNames) :
        LET c == cycle[k]
            z2 == SpecZ2(c.rows, src_ip, m, c.window_data[m])
            due == /\ calculate_statistics(c.rows, src_ip, m).count >= 3
                   /\ FGeq(z2, Whole(z_threshold * z_threshold))
        IN  /\ due <=> AlertsOn(c, m) # {}
            /\ \A i \in AlertsOn(c, m) :
                   c.emitted[i].score2 = z2 /\ c.emitted[i].severity = SpecSeverity(z2)

\* C14: every baseline row has sample_count >= 0, a standard deviation of at
\* least MIN_STD, and mean 0 when sample_count is 0.
C14_BaselineRowInvariant ==
    \A r \in device_profiles :
        /\ r.sample_count >= 0
        /\ FGeq(r.std2, MinStd2)
        /\ (r.sample_count = 0 => r.mean = Zero)

\* the last cycle that analysed the host
LastCycleOf(src_ip) ==
    CHOOSE k \in DOMAIN cycle :
        /\ src_ip \in cycle[k].analysed
        /\ \A j \in DOMAIN cycle : src_ip \in cycle[j].analysed => j <= k

\* C15: after a cycle has processed host h the baseline table holds exactly
\* one row for (h, m) for each of the five metrics m, with the mean, std, min,
\* max and sample_count of that metric's history.
C15_OneBaselineRowPerMetric ==
    \A k \in DOMAIN cycle : \A src_ip \in cycle[k].analysed : \A m \in Range(MetricNames) :
        LET rows == cycle[LastCycleOf(src_ip)].rows
            st == calculate_statistics(rows, src_ip, m)
            all == ValuesOf(MetricRowsOf(rows, src_ip, m))
        IN  /\ Cardinality({r \in device_profiles : r.src_ip = src_ip /\ r.metric_name = m}) = 1
            /\ \A r \in device_profiles :
                   (r.src_ip = src_ip /\ r.metric_name = m) =>
                       /\ r.mean = st.mean /\ r.std2 = st.std2 /\ r.sample_count = st.count
                       /\ r.min_value = FMin(all) /\ r.max_value = FMax(all)

\* C16: in one run_detection cycle every src_ip that has a stored window is
\* analysed: none is skipped because other hosts are present.
C16_EveryHostAnalysed ==
    \A k \in DOMAIN cycle : cycle[k].present \subseteq cycle[k].analysed

(***************************************************************************)
(* Properties of the adaptive trainer                                      *)
(***************************************************************************)
\* the tables as call k left them
AfterCall(k) == IF k = Len(t_call) THEN TrainerState ELSE t_call[k + 1].before

\* C17: for a host outside learning mode, add_metrics_sample(ip, metrics,
\* is_anomaly=True) returns False and leaves the metrics history and the
\* profile row unchanged; no sample is stored that was flagged anomalous
\* outside learning mode, and no profile mean lies above the greatest value
\* given as normal, which a flagged sample would lift it over.
C17_AnomalousSampleNotAbsorbed ==
    /\ \A k \in DOMAIN t_call :
          ( /\ t_call[k].op = "add_metrics_sample"
            /\ t_call[k].is_anomaly
            /\ ~is_in_learning_mode(t_call[k].before.profiles, t_call[k].src_ip) )
          => /\ t_call[k].result = FALSE
             /\ AfterCall(k) = t_call[k].before
    /\ \A k \in DOMAIN t_call :
          ( t_call[k].op = "add_metrics_sample" /\ t_call[k].is_anomaly /\ t_call[k].result )
          => t_call[k].learning
    /\ \A r \in host_profiles : \A m \in Range(MetricNames) :
          \E level \in NormalLevels : FGeq(SampleOf(level)[m], r.mean[m])

\* a host with a profile of two samples has left learning mode, and a sample
\* flagged anomalous was then refused
C17_Witness ==
    /\ t_call # <<>>
    /\ LET last == t_call[Len(t_call)]
       IN  /\ last.op = "add_metrics_sample"
           /\ last.is_anomaly
           /\ ~last.result
           /\ \E r \in last.before.profiles : r.samples_count >= 2 /\ ~r.is_learning
    /\ \E i \in DOMAIN metrics_history : metrics_history[i].is_anomaly

\* C18: with the default parameters a host is in learning mode during its
\* first 100 normal samples and no longer once 100 have been absorbed; later
\* profile updates use the EWMA blend.
C18_LeavesLearningAfterWindow ==
    LET n == Len(metrics_history)
    IN  /\ n < learning_window => is_in_learning_mode(host_profiles, "10.0.0.1")
        /\ n >= learning_window => ~is_in_learning_mode(host_profiles, "10.0.0.1")
        /\ n > learning_window => \A r \in host_profiles : r.blended

\* C40: an administrator's learning-mode setting is sticky: after
\* set_learning_mode(ip, False), is_in_learning_mode(ip) is False and stays
\* False across any number of later add_metrics_sample calls, until
\* set_learning_mode(ip, True) or reset_profile(ip) is called; also for a host
\* that has no profile row when the mode is set.
C40_LearningModeSticky ==
    \A j \in DOMAIN t_call :
        (t_call[j].op = "set_learning_mode" /\ ~t_call[j].enabled) =>
            \A k \in j..Len(t_call) :
                (\A i \in (j + 1)..k : /\ t_call[i].op = "add_metrics_sample"
                                        /\ t_call[i].src_ip = t_call[j].src_ip)
                => ~is_in_learning_mode(AfterCall(k).profiles, t_call[j].src_ip)

(***************************************************************************)
(* Properties of the aggregator                                            *)
(***************************************************************************)
RECURSIVE SumSizes(_)
SumSizes(ids) ==
    IF ids = {} THEN 0
    ELSE LET id == CHOOSE x \in ids : TRUE
         IN  raw_events[id].packet_size + SumSizes(ids \ {id})

\* the rows of the i-th saved window, and one metric of it
Block(i) == SubSeq(aggregated_metrics, 5 * (i - 1) + 1, 5 * i)
Value(i, name) ==
    LET b == Block(i)
    IN  b[CHOOSE j \in DOMAIN b : b[j].metric_name = name].metric_value

\* the rows appended by the step
NewRows == SubSeq(aggregated_metrics', Len(aggregated_metrics) + 1, Len(aggregated_metrics'))

\* C1: after process_event(e) no open window has window_start + W <= e.timestamp;
\* every window that was open and is that old was written in this step and
\* removed; the window that contains e is still open.
C1_IngestFlushesOldWindows ==
    [][Len(raw_events') = Len(raw_events) + 1 =>
        LET e == raw_events'[Len(raw_events')]
            W == window_seconds * Resolution
        IN  /\ \A i \in DOMAIN current_window' :
                  current_window'[i].window_start * Resolution + W > e.timestamp
            /\ \A i \in DOMAIN current_window :
                  current_window[i].window_start * Resolution + W <= e.timestamp =>
                      /\ \A j \in DOMAIN current_window' :
                            KeyOf(current_window'[j]) # KeyOf(current_window[i])
                      /\ \E j \in DOMAIN NewRows :
                            /\ NewRows[j].src_ip = current_window[i].src_ip
                            /\ NewRows[j].window_start = current_window[i].window_start
                            /\ NewRows[j].metric_name = "connections_count"
                            /\ NewRows[j].metric_value = Whole(current_window[i].connections)
            /\ \E i \in DOMAIN current_window' :
                  /\ current_window'[i].src_ip = e.src_ip
                  /\ current_window'[i].window_start * Resolution <= e.timestamp
                  /\ e.timestamp < current_window'[i].window_start * Resolution + W
                  /\ Len(raw_events') \in current_window'[i].events]_vars

\* event 1 sits in a window that is still open, event 2 in a window that an
\* ingest has flushed (flush_all would have closed the window of event 1 too)
C1_Witness ==
    /\ \E i \in DOMAIN current_window : 1 \in current_window[i].events
    /\ \E i \in DOMAIN saved_events : 2 \in saved_events[i]
    /\ agg_pc = "running"

\* C2: every persisted window has connections_count >= unique_ports,
\* connections_count >= unique_dst_ips, total_bytes = the sum of packet_size of
\* its events, and avg_packet_size * connections_count = total_bytes (the
\* average being 0 for an empty window).
C2_PersistedWindowMetrics ==
    \A i \in DOMAIN saved_events :
        LET cc  == Value(i, "connections_count")
            up  == Value(i, "unique_ports")
            ud  == Value(i, "unique_dst_ips")
            tb  == Value(i, "total_bytes")
            avg == Value(i, "avg_packet_size")
        IN  /\ cc.den = 1 /\ up.den = 1 /\ ud.den = 1 /\ tb.den = 1
            /\ cc.num >= up.num
            /\ cc.num >= ud.num
            /\ tb.num = SumSizes(saved_events[i])
            /\ avg.num * cc.num = tb.num * avg.den
            /\ (cc.num = 0 => avg.num = 0)

\* a persisted window of three events, two of them without a counted port
C2_Witness ==
    \E i \in DOMAIN saved_events :
        /\ Value(i, "connections_count").num = 3
        /\ Value(i, "unique_ports").num = 1
        /\ Value(i, "unique_dst_ips").num = 2
        /\ Value(i, "total_bytes").num = 180

\* C3: aggregated_metrics holds at most one row per (src_ip, window_start, metric_name)
C3_OneRowPerWindowMetric ==
    \A i, j \in DOMAIN aggregated_metrics :
        ( /\ aggregated_metrics[i].src_ip = aggregated_metrics[j].src_ip
          /\ aggregated_metrics[i].window_start = aggregated_metrics[j].window_start
          /\ aggregated_metrics[i].metric_name = aggregated_metrics[j].metric_name )
        => i = j

\* C5: when run_aggregator has stopped, every window that was open at that
\* moment has been written to the store
C5_StopFlushesOpenWindows ==
    agg_pc # "running" =>
        \A i \in DOMAIN current_window :
            \E j \in DOMAIN aggregated_metrics :
                aggregated_metrics[j] = MetricRow(current_window[i], 1)

(***************************************************************************)
(* ML detector: the training gate and repeated training                    *)
(***************************************************************************)
\* the detector and its database after the k-th recorded call
AfterMl(k) == IF k < Len(ml_call) THEN ml_call[k + 1].before ELSE MlState

MIN_TRAIN == 50

\* the number of is_normal = 1 samples train() finds once it has collected
NormalCount(s) == Len(NormalRows(s.ml_training_data))

\* C19: train() on an untrained detector returns insufficient_data, leaves
\* is_trained false and persists no model whenever the is_normal = 1 samples
\* number fewer than MIN_TRAIN = 50; with 50 or more it returns trained with
\* n_samples equal to that number, sets is_trained and persists the model.
C19_TrainingGate ==
    \A k \in DOMAIN ml_call :
        LET c     == ml_call[k]
            after == AfterMl(k)
            n     == NormalCount(after)
        IN  (c.op = "train" /\ ~c.before.ml.is_trained) =>
               /\ n < MIN_TRAIN =>
                     /\ c.result.status = "insufficient_data"
                     /\ ~after.ml.is_trained
                     /\ ~after.model_file.exists
               /\ n >= MIN_TRAIN =>
                     /\ c.result = Result("trained", n)
                     /\ after.ml.is_trained
                     /\ after.model_file.exists
                     /\ after.model_file.model = after.ml.model
                     /\ after.model_file.scaler = after.ml.scaler

\* 49 samples: train is refused; one more sample is ingested; train succeeds on 50
C19_Witness ==
    \E k \in DOMAIN ml_call :
        /\ k + 2 <= Len(ml_call)
        /\ ml_call[k].op = "train"
        /\ NormalCount(ml_call[k].before) = MIN_TRAIN - 1
        /\ ml_call[k].result = Result("insufficient_data", MIN_TRAIN - 1)
        /\ ml_call[k + 1].op = "collect_training_data"
        /\ ml_call[k + 2].op = "train"
        /\ ml_call[k + 2].result = Result("trained", MIN_TRAIN)
        /\ AfterMl(k + 2).model_file.exists

\* C20: train(force = False) on a trained detector returns already_trained and
\* leaves the model, the scaler, is_trained, the training table and the
\* model-metrics table as they were, each time it is called; on a trained
\* detector nothing but train(force = True) fits and persists a model.
C20_RetrainIdempotent ==
    \A k \in DOMAIN ml_call :
        LET c     == ml_call[k]
            after == AfterMl(k)
        IN  c.before.ml.is_trained =>
               /\ (c.op = "train" /\ ~c.force) =>
                     /\ c.result.status = "already_trained"
                     /\ after = c.before
               /\ (after.ml_model_metrics # c.before.ml_model_metrics
                      \/ after.model_file # c.before.model_file
                      \/ after.ml.model # c.before.ml.model) =>
                     (c.op = "train" /\ c.force)

\* a trained detector is asked to train twice in a row without force, while a
\* window nobody has collected waits in aggregated_metrics
C20_Witness ==
    \E k \in DOMAIN ml_call :
        /\ k + 1 <= Len(ml_call)
        /\ ml_call[k].op = "train" /\ ~ml_call[k].force
        /\ ml_call[k + 1].op = "train" /\ ~ml_call[k + 1].force
        /\ ml_call[k].before.ml.is_trained
        /\ ml_call[k].result.status = "already_trained"
        /\ ml_call[k + 1].result.status = "already_trained"
        /\ collect_from_aggregated(aggregated_metrics, WindowsOf(aggregated_metrics),
                                   ml_training_data) # {ml_training_data}

(***************************************************************************)
(* ML detector: the alerts of detect, and the training table over cycles   *)
(***************************************************************************)
\* C21: an MLAlert produced while the model is not trained has ml_score = 0 and
\* combined_score = stat_score; one produced by a trained model has
\* combined_score = 0.4 * stat_score + 0.6 * ml_score.
C21_MlAlertFusion ==
    \A i \in DOMAIN ml_alerts :
        LET a == ml_alerts[i]
        IN  /\ ~a.model_trained => a.ml_score = Zero /\ a.combined_score = a.stat_score
            /\ a.model_trained =>
                  a.combined_score = FAdd(FMul(Frac(4, 10), a.stat_score),
                                          FMul(Frac(6, 10), a.ml_score))

\* one alert of each kind is in the table, the trained one with scores that differ
C21_Witness ==
    /\ \E i \in DOMAIN ml_alerts : ~ml_alerts[i].model_trained
    /\ \E i \in DOMAIN ml_alerts :
          /\ ml_alerts[i].model_trained
          /\ ml_alerts[i].ml_score # ml_alerts[i].stat_score
          /\ ml_alerts[i].ml_score # Zero

\* C30: the training table holds at most one sample per (src_ip, window_start):
\* a window already copied into it is never copied again.
C30_OneSamplePerWindow ==
    \A i, j \in DOMAIN ml_training_data :
        (/\ i # j
         /\ ml_training_data[i].of_window # None
         /\ ml_training_data[i].src_ip = ml_training_data[j].src_ip)
            => ml_training_data[i].of_window # ml_training_data[j].of_window

(***************************************************************************)
(* Hybrid scorer: the verdict of score_host and what a cycle stores        *)
(***************************************************************************)
InUnit(x) == FGeq(x, Zero) /\ FGeq(One, x)

\* the severity the thresholds 0.85 / 0.65 / 0.45 / 0.25 give a combined score
StepSeverity(combined) ==
    IF FGeq(combined, Frac(85, 100)) THEN "critical"
    ELSE IF FGeq(combined, Frac(65, 100)) THEN "high"
    ELSE IF FGeq(combined, Frac(45, 100)) THEN "medium"
    ELSE IF FGeq(combined, Frac(25, 100)) THEN "low"
    ELSE "info"

\* C22: the combined score of every verdict score_host returns lies in [0, 1],
\* and the verdict's severity is the step function of that score: critical from
\* 0.85, high from 0.65, medium from 0.45, low from 0.25, info below.
C22_SeverityOfCombined ==
    \A k \in DOMAIN h_call :
        LET v == h_call[k].verdict
        IN  /\ InUnit(v.combined_score)
            /\ v.severity = StepSeverity(v.combined_score)

\* the layers whose score reaches its threshold, the threshold included
TriggeredInclusive(scores) ==
      (IF FGeq(scores.sig, Frac(1, 4)) THEN 1 ELSE 0)
    + (IF FGeq(scores.stat, Frac(1, 2)) THEN 1 ELSE 0)
    + (IF FGeq(scores.ml, Frac(1, 2)) THEN 1 ELSE 0)

Capped(x) == IF FGeq(x, One) THEN One ELSE x

\* C23: a layer is triggered iff its score is at least its threshold (sig 0.25,
\* stat 0.5, ml 0.5); with t triggered layers the combined score is multiplied by
\* 1.3 for t >= 3 and by 1.15 for t = 2, and confidence is high / medium / low /
\* none for t = 3 / 2 / 1 / 0.
C23_TriggeredInclusive ==
    \A k \in DOMAIN h_call :
        LET c == h_call[k]
            t == TriggeredInclusive(c.scores)
        IN  /\ c.verdict.confidence =
                  (CASE t = 3 -> "high" [] t = 2 -> "medium" [] t = 1 -> "low"
                     [] OTHER -> "none")
            /\ c.verdict.unrounded =
                  Capped(FMul(c.verdict.summed,
                              CASE t = 3 -> Frac(13, 10) [] t = 2 -> Frac(115, 100)
                                [] OTHER -> One))

\* the default weight of a layer
DefaultWeight(layer) ==
    CASE layer = "sig" -> Frac(40, 100) [] layer = "stat" -> Frac(25, 100)
      [] layer = "ml" -> Frac(35, 100)

ActiveLayers(c) ==
    {layer \in {"sig", "stat", "ml"} :
        CASE layer = "sig"  -> scorer.suricata_engine
          [] layer = "stat" -> scorer.anomaly_detector
          [] layer = "ml"   -> c.ml_active}

RECURSIVE SumOver(_, _)
SumOver(layers, f) ==
    IF layers = {} THEN Zero
    ELSE LET l == CHOOSE x \in layers : TRUE
         IN  FAdd(f[l], SumOver(layers \ {l}, f))

\* C24: the weight score_host applies to an active layer is its default weight
\* (0.40, 0.25, 0.35) divided by the sum of the default weights of the active
\* layers, so the applied weights sum to 1; an inactive layer has weight 0 and
\* adds nothing to the combined score.
C24_WeightsOverActiveLayers ==
    \A k \in DOMAIN h_call :
        LET c      == h_call[k]
            active == ActiveLayers(c)
            total  == SumOver(active, [l \in active |-> DefaultWeight(l)])
        IN  /\ \A l \in {"sig", "stat", "ml"} \ active : c.verdict.applied[l] = Zero
            /\ active # {} =>
                  /\ \A l \in active :
                        FMul(c.verdict.applied[l], total) = DefaultWeight(l)
                  /\ SumOver(active, [l \in active |-> c.verdict.applied[l]]) = One
            /\ c.verdict.summed =
                  SumOver(active, [l \in active |-> FMul(c.verdict.applied[l], c.scores[l])])

\* a scorer whose ML detector has not trained scores a host with alerts and a
\* z-score: the signature layer is applied with 0.40 / 0.65
C24_Witness ==
    \E k \in DOMAIN h_call :
        /\ scorer = [suricata_engine |-> TRUE, anomaly_detector |-> TRUE,
                     ml_detector |-> TRUE]
        /\ ~h_call[k].ml_active
        /\ h_call[k].verdict.applied.sig = Frac(8, 13)
        /\ h_call[k].scores.sig # Zero
        /\ h_call[k].scores.stat # Zero

\* C25: in a scoring cycle a verdict row is written for a scored host iff the
\* combined score of its verdict is at least 0.25, and no more than one row per
\* host and cycle.
C25_VerdictPersistedIff ==
    /\ \A j, k \in DOMAIN h_call :
          (h_call[j].cycle = h_call[k].cycle /\ h_call[j].src_ip = h_call[k].src_ip) => j = k
    /\ \A k \in DOMAIN h_call :
          LET c    == h_call[k]
              rows == {i \in DOMAIN hybrid_verdicts :
                          /\ hybrid_verdicts[i].cycle = c.cycle
                          /\ hybrid_verdicts[i].verdict.src_ip = c.src_ip}
          IN  /\ Cardinality(rows) = IF FGeq(c.verdict.combined_score, Frac(25, 100))
                                     THEN 1 ELSE 0
              /\ \A i \in rows : hybrid_verdicts[i].verdict = c.verdict

\* a verdict of exactly 0.25 has been written, and one below it has not
C25_Witness ==
    \E k \in DOMAIN h_call :
        /\ h_call[k].verdict.combined_score = Frac(1, 4)
        /\ h_call[k].saved
        /\ Len(hybrid_verdicts) = 1

\* the signature score the claim gives a host at the time now: over all of the
\* host's alerts of the last 120 s
SigScoreOfAll(table, src_ip, now) ==
    LET mine == {i \in DOMAIN table : /\ table[i].src_ip = src_ip
                                      /\ table[i].timestamp > now - 120 * Resolution}
        weight(i) == CASE table[i].severity = "critical" -> One
                       [] table[i].severity = "high"     -> Frac(3, 4)
                       [] table[i].severity = "medium"   -> Frac(1, 2)
                       [] table[i].severity = "low"      -> Frac(1, 4)
        top == CHOOSE i \in mine : \A j \in mine : FGeq(weight(i), weight(j))
        n   == Cardinality(mine)
        count_factor == IF n >= 5 THEN One ELSE Frac(n, 5)
    IN  IF mine = {} THEN Zero
        ELSE Capped(FMul(weight(top), FAdd(Frac(1, 2), FMul(Frac(1, 2), count_factor))))

\* C26: sig_score is 0 without a signature alert of the host in the last 120 s,
\* else min(1, max_weight * (0.5 + 0.5 * min(1, n / 5))) with n and max_weight
\* taken over all of the host's alerts of the last 120 s, however many.
C26_SigScoreOverAllAlerts ==
    \A k \in DOMAIN h_call :
        scorer.suricata_engine =>
            h_call[k].scores.sig = SigScoreOfAll(suricata_alerts, h_call[k].src_ip,
                                                 h_call[k].now)

(***************************************************************************)
(* The periodic workers                                                    *)
(***************************************************************************)
\* C27: a fault raised inside one cycle of a periodic worker, a cycle on a
\* store without windows included, is caught by the worker, which goes on to
\* its next cycle: after a run_detection cycle that found no window the worker
\* run_detector is still running.
C27_WorkerSurvivesFault ==
    \A k \in DOMAIN cycle : cycle[k].rows = <<>> => detect_pc = "running"

\* C29: run_hybrid_scorer attempts an ML auto-train on every tenth cycle, so
\* at least once in any ten consecutive cycles, and once an attempt has
\* trained the model every scoring cycle from that one on scores with the ML
\* layer active and with the model that attempt fitted.
C29_AutoTrainEveryTenth ==
    LET attempts == h_worker.attempts
    IN  /\ \A k \in DOMAIN attempts :
              k + 9 <= Len(attempts) => \E j \in k..(k + 9) : attempts[j].attempted
        /\ \A j, k \in DOMAIN attempts :
              (attempts[j].attempted /\ attempts[k].attempted) => (k - j) % 10 = 0
        /\ \A k \in DOMAIN attempts :
              (attempts[k].attempted /\ attempts[k].status = "trained") =>
                  /\ attempts[k].model.fitted
                  /\ \A i \in DOMAIN h_call :
                        h_call[i].cycle >= k =>
                            /\ h_call[i].ml_active
                            /\ h_call[i].model = attempts[k].model
                            /\ h_call[i].verdict.applied.ml = Frac(35, 100)

\* the attempt of cycle 1 found too few samples, the attempt of cycle 11
\* trained, and cycle 12 has scored the host with the ML layer
C29_Witness ==
    /\ Len(h_worker.attempts) >= 12
    /\ h_worker.attempts[1].status = "insufficient_data"
    /\ h_worker.attempts[11].status = "trained"
    /\ \E i \in DOMAIN h_call : h_call[i].cycle = 12 /\ h_call[i].ml_active
    /\ \E i \in DOMAIN h_call : h_call[i].cycle = 10 /\ ~h_call[i].ml_active

(***************************************************************************)
(* check_packet next to a rule change                                      *)
(***************************************************************************)
\* C28: a check_packet that runs while a rule is installed, deleted or toggled
\* on the same engine evaluates the packet against the whole rule set of
\* before the change or the whole rule set of after it: the rules its loop
\* went through are one of these two lists, and so are its matches.
C28_CheckSeesWholeRuleSet ==
    check.pc = "done" =>
        /\ check.seen \in {reload.before, reload.after}
        /\ check.matches \in {match_packet(reload.before, check.packet_event),
                              match_packet(reload.after, check.packet_event)}

(***************************************************************************)
(* The two statistical scores                                              *)
(***************************************************************************)
\* C31: for every host, history and current window, the stat score of
\* HybridScorer._get_stat_score equals that of
\* MLAnomalyDetector._get_stat_score, also for a host with fewer than three
\* stored windows and for metrics whose history has zero variance.
C31_SameStatScore ==
    fn_call.applied => fn_call.value.hybrid = fn_call.value.ml

(***************************************************************************)
(* More properties of the aggregator                                       *)
(***************************************************************************)
\* C32: for every persisted window unique_ports is the number of distinct
\* dst_port values among its events that carry a destination port, every
\* port from 0 to 65535 counting as present, and unique_dst_ips is the number
\* of distinct dst_ip values.
C32_UniquePortsCountsEveryPort ==
    \A i \in DOMAIN saved_events :
        LET carried == {id \in saved_events[i] : raw_events[id].dst_port # None}
        IN  /\ Value(i, "unique_ports") =
                   Whole(Cardinality({raw_events[id].dst_port : id \in carried}))
            /\ Value(i, "unique_dst_ips") =
                   Whole(Cardinality({raw_events[id].dst_ip : id \in saved_events[i]}))

\* the window the events `ids` of one window build when they are ingested in
\* id order, starting from no open window
Max(ids) == CHOOSE n \in ids : \A m \in ids : m <= n

RECURSIVE Replayed(_)
Replayed(ids) ==
    IF ids = {} THEN <<>>
    ELSE LET n == Max(ids) IN Accumulate(Replayed(ids \ {n}), raw_events[n], n)

WindowOf(ids) == IF ids = {} THEN NewWindow(0, "") ELSE Replayed(ids)[1]

\* an open window whose two newest events are the two newest events ingested,
\* and these are the same PacketEvent
TwiceIn(wd) ==
    LET n == Len(raw_events)
    IN  /\ n >= 2
        /\ {n - 1, n} \subseteq wd.events
        /\ raw_events[n - 1] = raw_events[n]

\* C34: ingesting the same PacketEvent twice yields exactly twice the counter
\* increments of ingesting it once: the window's connection count rises by 2
\* and total_bytes by 2 * packet_size, while the port set and the dst-ip set
\* are the same as after one ingest.
C34_TwiceDoubles ==
    \A i \in DOMAIN current_window :
        LET wd   == current_window[i]
            n    == Len(raw_events)
            base == WindowOf(wd.events \ {n - 1, n})
            once == WindowOf(wd.events \ {n})
        IN  TwiceIn(wd) =>
              /\ wd.connections - base.connections = 2
              /\ wd.connections - base.connections =
                     2 * (once.connections - base.connections)
              /\ wd.total_bytes - base.total_bytes = 2 * raw_events[n].packet_size
              /\ wd.total_bytes - base.total_bytes =
                     2 * (once.total_bytes - base.total_bytes)
              /\ wd.ports = once.ports
              /\ wd.dst_ips = once.dst_ips

\* an event with a destination port has been ingested twice into a window that
\* already held an event
C34_Witness ==
    \E i \in DOMAIN current_window :
        /\ TwiceIn(current_window[i])
        /\ Cardinality(current_window[i].events) = 3
        /\ raw_events[Len(raw_events)].dst_port = 80
        /\ current_window[i].connections = 3

\* the sum of one metric over the persisted windows i..n of a host
RECURSIVE SumSaved(_, _, _)
SumSaved(i, src_ip, name) ==
    IF i > Len(saved_events) THEN 0
    ELSE (IF Block(i)[1].src_ip = src_ip THEN Value(i, name).num ELSE 0)
         + SumSaved(i + 1, src_ip, name)

EventsFrom(src_ip) == {id \in DOMAIN raw_events : raw_events[id].src_ip = src_ip}

\* nothing is open, and the store accounts for every event exactly once
Conserved ==
    /\ current_window = <<>>
    /\ \A src_ip \in SrcIps :
          /\ SumSaved(1, src_ip, "connections_count") = Cardinality(EventsFrom(src_ip))
          /\ SumSaved(1, src_ip, "total_bytes") = SumSizes(EventsFrom(src_ip))

\* C36: no event is lost or counted twice: after any sequence of process_event
\* calls followed by flush_all, for every src_ip the sum of connections_count
\* over its persisted windows is the number of events ingested for it, the sum
\* of total_bytes is the sum of their packet sizes, and no window is open.
C36_FlushAllConserves ==
    [][(FlushAll \/ KeyboardInterrupt) => Conserved']_vars

\* flush_all has run after three events of one host in two windows, one of
\* them saved by an ingest and the other by flush_all
C36_Witness ==
    /\ agg_pc = "interrupted"
    /\ current_window = <<>>
    /\ Len(saved_events) = 2
    /\ Cardinality(EventsFrom("10.0.0.1")) = 3
    /\ SumSaved(1, "10.0.0.1", "connections_count") = 3

\* C33: for every event timestamp t, get_window_key(t) is a multiple of the
\* window size W and get_window_key(t) <= t < get_window_key(t) + W.
C33_WindowKeyBrackets ==
    fn_call.applied =>
        LET t   == fn_call.args.timestamp
            key == fn_call.value
        IN  /\ key % window_seconds = 0
            /\ key * Resolution <= t
            /\ t < (key + window_seconds) * Resolution

(***************************************************************************)
(* The severity of the verdicts a scoring cycle stores                     *)
(***************************************************************************)
\* C37: every verdict row a scoring cycle persists has a severity among low,
\* medium, high and critical that agrees with the thresholds applied to its
\* stored combined_score; no persisted verdict has severity info.
C37_PersistedSeverity ==
    \A i \in DOMAIN hybrid_verdicts :
        LET v == hybrid_verdicts[i].verdict
        IN  /\ v.severity \in {"low", "medium", "high", "critical"}
            /\ v.severity = StepSeverity(v.combined_score)

(***************************************************************************)
(* Rule texts and the rule store                                           *)
(***************************************************************************)
\* C35: for every rule text that parses, parsing the raw_rule text the store
\* keeps for the parsed rule, as _load_rules_from_db does, gives a rule equal
\* in every field to the rule first parsed.
C35_ReparseOfStoredText ==
    (fn_call.applied /\ fn_call.value.parsed # NoRule) =>
        /\ fn_call.value.reloaded = <<fn_call.value.parsed>>
        /\ parse_rule(fn_call.value.parsed.raw_rule) = fn_call.value.parsed

\* a line with white space around it, a message and an unquoted option has
\* been parsed and reloaded
C35_Witness ==
    /\ fn_call.applied
    /\ fn_call.args.rule_text.pad
    /\ fn_call.value.parsed # NoRule
    /\ fn_call.value.parsed.sid = 9001
    /\ "rev" \in DOMAIN fn_call.value.parsed.options
    /\ "msg" \in DOMAIN fn_call.value.parsed.options
    /\ Len(fn_call.value.reloaded) = 1

SidsOfRules(rules) == {rules[i].sid : i \in DOMAIN rules}

\* C38: on a single engine, after any sequence of add_rule,
\* add_rules_from_text, delete_rule and toggle_rule the sids of the in-memory
\* rule list are the sids of the enabled rows of the store; an operation that
\* fails or finds nothing to do (a line that is no rule, a sid the store does
\* not hold) leaves the store and the list as they are.
C38_ListMirrorsEnabledRows ==
    \A e \in Admins :
        LET st == StoreOf(e)
        IN  /\ SidsOfRules(st.rules) = {r.sid : r \in {q \in st.rows : q.enabled}}
            /\ \A form \in {"blank", "comment", "garbage"} :
                  /\ add_rule(st, OtherLine(form), "custom") = st
                  /\ add_rules_from_text(st, <<OtherLine(form)>>, "custom") = st
            /\ \A sid \in EngineSids :
                  (\A r \in st.rows : r.sid # sid) =>
                      /\ delete_rule(st, sid) = st
                      /\ \A enabled \in BOOLEAN : toggle_rule(st, sid, enabled) = st

\* rule 9001 has been added, rule 1000001 deleted and rule 1000007 switched
\* off: the list holds 9001 and neither of the other two
C38_Witness ==
    \E e \in Admins :
        /\ 9001 \in SidsOfRules(parser_rules[e])
        /\ 1000002 \in SidsOfRules(parser_rules[e])
        /\ 1000001 \notin SidsOfRules(parser_rules[e])
        /\ 1000007 \notin SidsOfRules(parser_rules[e])
        /\ \E r \in suricata_rules : r.sid = 1000007 /\ ~r.enabled
        /\ \A r \in suricata_rules : r.sid # 1000001

(***************************************************************************)
(* The z-score of a metric that never varied                               *)
(***************************************************************************)
\* C39: calculate_z_score returns 0 whenever std is 0, whatever the current
\* value and the mean are, and so check_metric returns no alert for a metric
\* whose stored history is constant, whatever the current value is.
C39_NoAlertOnZeroStd ==
    (fn_call.applied /\ fn_call.value.stats.std2 = Zero) =>
        /\ fn_call.value.z_score2 = Zero
        /\ fn_call.value.alert = <<>>
        /\ \A mean \in CurrentValues :
              calculate_z_score2(fn_call.args.current_value, mean, Zero) = Zero

\* check_metric has run on seventeen equal values of total_bytes with a
\* current value four times as large
C39_Witness ==
    /\ fn_call.applied
    /\ fn_call.args.metric_name = "total_bytes"
    /\ fn_call.value.stats = [mean |-> Whole(40), std2 |-> Zero, count |-> 17]
    /\ fn_call.args.current_value = Whole(160)
    /\ fn_call.value.alert = <<>>

====
